---- MODULE Spec2Model ----
(***************************************************************************)
(* Response-normalisation and provider-abstraction layer of the data/graph *)
(* visualizer.  Two generations of the AI service are modelled side by     *)
(* side:                                                                   *)
(*   "part_005"  : src/unnamed/part_005 (extractJsonString, per-task       *)
(*                 ProviderConfig, custom branch + hosted structured       *)
(*                 output branch)                                          *)
(*   "aiService" : src/services/aiService.ts (parseJsonResponse, trailing  *)
(*                 comma repair, isChart check)                            *)
(*                                                                         *)
(* Model text is a sequence of tokens.  A token is a piece of text that    *)
(* the string operations of the code treat as a unit:                      *)
(*   "O"  the seven characters ```json      "F"  the three characters ```  *)
(*   "{" "}" "[" "]" ","  the JSON structural characters                   *)
(*   " "  one whitespace character          "p"  one letter of prose       *)
(*   "1"  one digit (a run of them is one number), "n" the literal null    *)
(*   "a"  the member "a":1 (digits after it continue its number)           *)
(*   "iT" "iF" "iS"  the members "isChart":true / :false / :"yes"          *)
(*   "rs" the member "reason":"..."   "rp" the member "report":"..."       *)
(*   "re" the member "reason":""  (the empty string)                       *)
(*   "rc" the member "reason":"a,}" (a comma before a brace inside the     *)
(*        string), "rx" the member "reason":"a}"                           *)
(*   "sg" the key "suggestions":, "dt" the key "data": (the value follows) *)
(***************************************************************************)
EXTENDS Integers, Sequences, FiniteSets, TLC

\* ------------------------------------------------------------------ bounds
MaxDoc == 3
MaxProse == 1
MaxRespDoc == 3
MaxMembers == 2

\* ------------------------------------------------------------------ tokens
WsTok == {" "}
BacktickTok == {"O", "F"}
MemberTok == {"a", "iT", "iF", "iS", "rs", "re", "rc", "rx", "rp"}
KeyTok == {"sg", "dt"}

\* ---------------------------------------------------------- string helpers
\* String.prototype.indexOf over tokens: 0 stands for JavaScript's -1,
\* position i (1-based) for JavaScript's index i-1.
IndexOf(s, T) ==
  IF \E i \in 1..Len(s) : s[i] \in T
  THEN CHOOSE i \in 1..Len(s) : s[i] \in T /\ \A j \in 1..(i-1) : s[j] \notin T
  ELSE 0

LastIndexOf(s, T) ==
  IF \E i \in 1..Len(s) : s[i] \in T
  THEN CHOOSE i \in 1..Len(s) : s[i] \in T /\ \A j \in (i+1)..Len(s) : s[j] \notin T
  ELSE 0

\* First position after `from` holding a token of T, 0 if none.
IndexOfFrom(s, T, from) ==
  IF \E i \in (from+1)..Len(s) : s[i] \in T
  THEN CHOOSE i \in (from+1)..Len(s) :
         s[i] \in T /\ \A j \in (from+1)..(i-1) : s[j] \notin T
  ELSE 0

Max2(a, b) == IF a >= b THEN a ELSE b
Min2(a, b) == IF a <= b THEN a ELSE b

\* String.prototype.trim
RECURSIVE TrimLeft(_)
TrimLeft(s) == IF s # <<>> /\ Head(s) \in WsTok THEN TrimLeft(Tail(s)) ELSE s
RECURSIVE TrimRight(_)
TrimRight(s) ==
  IF s # <<>> /\ s[Len(s)] \in WsTok THEN TrimRight(SubSeq(s, 1, Len(s) - 1)) ELSE s
Trim(s) == TrimRight(TrimLeft(s))

\* s with the tokens at positions in `drop` removed
RECURSIVE RemoveAt(_, _, _)
RemoveAt(s, drop, i) ==
  IF i > Len(s) THEN <<>>
  ELSE (IF i \in drop THEN <<>> ELSE <<s[i]>>) \o RemoveAt(s, drop, i + 1)

StripWs(s) == RemoveAt(s, {i \in 1..Len(s) : s[i] \in WsTok}, 1)

\* ------------------------------------------------------------- JSON.parse
\* Recursive-descent recogniser over whitespace-free tokens.  Each operator
\* returns the position after the construct starting at i, or 0 when the
\* text is not JSON there.
RECURSIVE ValueEnd(_, _)
RECURSIVE ElementsEnd(_, _)
RECURSIVE MembersEnd(_, _)

\* The position after the run of digits "1" that starts at i.
DigitsEnd(s, i) ==
  IF \E j \in i..Len(s) : s[j] # "1"
  THEN CHOOSE j \in i..Len(s) : s[j] # "1" /\ \A k \in i..(j-1) : s[k] = "1"
  ELSE Len(s) + 1

ValueEnd(s, i) ==
  IF i > Len(s) THEN 0
  ELSE IF s[i] = "1" THEN DigitsEnd(s, i)
  ELSE IF s[i] = "n" THEN i + 1
  ELSE IF s[i] = "[" THEN
    IF i + 1 <= Len(s) /\ s[i + 1] = "]" THEN i + 2 ELSE ElementsEnd(s, i + 1)
  ELSE IF s[i] = "{" THEN
    IF i + 1 <= Len(s) /\ s[i + 1] = "}" THEN i + 2 ELSE MembersEnd(s, i + 1)
  ELSE 0

ElementsEnd(s, i) ==
  LET e == ValueEnd(s, i) IN
  IF e = 0 \/ e > Len(s) THEN 0
  ELSE IF s[e] = "]" THEN e + 1
  ELSE IF s[e] = "," THEN ElementsEnd(s, e + 1)
  ELSE 0

MembersEnd(s, i) ==
  LET e == IF i > Len(s) THEN 0
           ELSE IF s[i] = "a" THEN DigitsEnd(s, i + 1)
           ELSE IF s[i] \in MemberTok THEN i + 1
           ELSE IF s[i] \in KeyTok THEN ValueEnd(s, i + 1)
           ELSE 0
  IN
  IF e = 0 \/ e > Len(s) THEN 0
  ELSE IF s[e] = "}" THEN e + 1
  ELSE IF s[e] = "," THEN MembersEnd(s, e + 1)
  ELSE 0

\* A number cut in two by whitespace ("1 1") is two numbers, not one.
SplitNumber(s) ==
  \E i \in 1..Len(s) : \E k \in (i+2)..Len(s) :
    /\ s[i] \in {"1", "a"}
    /\ s[k] = "1"
    /\ \A m \in (i+1)..(k-1) : s[m] \in WsTok

\* JSON.parse(s): ok is FALSE where JSON.parse throws a SyntaxError; val is
\* the parsed value, written as its whitespace-free token sequence.
JsonParse(s) ==
  LET c == StripWs(s) IN
  IF ~SplitNumber(s) /\ ValueEnd(c, 1) = Len(c) + 1 THEN [ok |-> TRUE, val |-> c]
  ELSE [ok |-> FALSE, val |-> <<>>]

IsJson(s) == JsonParse(s).ok

\* ------------------------------------------------------ extractJsonString
\* null (no candidate) or the candidate string
NoCandidate == [found |-> FALSE, str |-> <<>>]
Candidate(s) == [found |-> TRUE, str |-> s]

\* text.match(/```json\s*([\s\S]*?)\s*```/): the leftmost ```json, the lazy
\* group ending at the first ``` after it; group 1 is the text between with
\* the whitespace at both ends consumed by the two \s*.
MarkdownMatch(text) ==
  LET open == IndexOf(text, {"O"})
      close == IF open = 0 THEN 0 ELSE IndexOfFrom(text, BacktickTok, open)
  IN IF open # 0 /\ close # 0
     THEN Candidate(Trim(SubSeq(text, open + 1, close - 1)))
     ELSE NoCandidate

\* extractJsonString with substring(start, end) in place of
\* substring(start, end + 1): the closing brace is cut off.
extractJsonString_EndExclusive(text) ==
  IF text = <<>> THEN NoCandidate
  ELSE
    LET markdownMatch == MarkdownMatch(text)
        firstBrace == IndexOf(text, {"{"})
        firstBracket == IndexOf(text, {"["})
        start == IF firstBrace = 0 THEN firstBracket
                 ELSE IF firstBracket = 0 THEN firstBrace
                 ELSE Min2(firstBrace, firstBracket)
        end == Max2(LastIndexOf(text, {"}"}), LastIndexOf(text, {"]"}))
        trimmedText == Trim(text)
    IN
    IF markdownMatch.found /\ markdownMatch.str # <<>> THEN markdownMatch
    ELSE IF start # 0 /\ end > start THEN Candidate(SubSeq(text, start, end - 1))
    ELSE IF trimmedText # <<>> /\ Head(trimmedText) \in {"{", "["}
      THEN Candidate(trimmedText)
    ELSE NoCandidate

\* extractJsonString without its third case: a text that only starts like
\* JSON yields no candidate.
extractJsonString_NoWholeText(text) ==
  IF text = <<>> THEN NoCandidate
  ELSE
    LET markdownMatch == MarkdownMatch(text)
        firstBrace == IndexOf(text, {"{"})
        firstBracket == IndexOf(text, {"["})
        start == IF firstBrace = 0 THEN firstBracket
                 ELSE IF firstBracket = 0 THEN firstBrace
                 ELSE Min2(firstBrace, firstBracket)
        end == Max2(LastIndexOf(text, {"}"}), LastIndexOf(text, {"]"}))
    IN
    IF markdownMatch.found /\ markdownMatch.str # <<>> THEN markdownMatch
    ELSE IF start # 0 /\ end > start THEN Candidate(SubSeq(text, start, end))
    ELSE NoCandidate

extractJsonString(text) ==
  IF text = <<>> THEN NoCandidate
  ELSE
    LET markdownMatch == MarkdownMatch(text)
        firstBrace == IndexOf(text, {"{"})
        firstBracket == IndexOf(text, {"["})
        start == IF firstBrace = 0 THEN firstBracket
                 ELSE IF firstBracket = 0 THEN firstBrace
                 ELSE Min2(firstBrace, firstBracket)
        lastBrace == LastIndexOf(text, {"}"})
        lastBracket == LastIndexOf(text, {"]"})
        end == Max2(lastBrace, lastBracket)
        trimmedText == Trim(text)
    IN
    IF markdownMatch.found /\ markdownMatch.str # <<>> THEN markdownMatch
    ELSE IF start # 0 /\ end > start THEN Candidate(SubSeq(text, start, end))
    ELSE IF trimmedText # <<>> /\ Head(trimmedText) \in {"{", "["}
      THEN Candidate(trimmedText)
    ELSE NoCandidate

\* ------------------------------------------------------ parseJsonResponse
\* Lines 97-106: the text between the last ```json and the last ```.
FencedPart(text) ==
  LET startIndex == LastIndexOf(text, {"O"})
      endIndex == LastIndexOf(text, BacktickTok)
  IN IF startIndex # 0 /\ endIndex > startIndex
     THEN SubSeq(text, startIndex + 1, endIndex - 1)
     ELSE text

\* Lines 108-114: narrowed to the first '{' .. last '}' when there are both.
MainObject(potentialJson) ==
  LET firstBrace == IndexOf(potentialJson, {"{"})
      lastBrace == LastIndexOf(potentialJson, {"}"})
  IN IF firstBrace # 0 /\ lastBrace > firstBrace
     THEN SubSeq(potentialJson, firstBrace, lastBrace)
     ELSE potentialJson

\* The candidate parseJsonResponse holds before its repair pass.
PotentialJson(text) == MainObject(FencedPart(text))

\* Line 117: replace(/,(?=\s*[}\]])/g, ''): every comma whose next
\* non-whitespace token is a closer is deleted.
CommaBeforeCloser(s, i) ==
  /\ s[i] = ","
  /\ \E j \in (i+1)..Len(s) :
       /\ s[j] \in {"}", "]"}
       /\ \A k \in (i+1)..(j-1) : s[k] \in WsTok

\* The pattern does not know strings: the comma inside "a,}" goes too.
InsideRepaired(tok) == IF tok = "rc" THEN "rx" ELSE tok

RemoveTrailingCommas(s) ==
  LET kept == RemoveAt(s, {i \in 1..Len(s) : CommaBeforeCloser(s, i)}, 1)
  IN [i \in 1..Len(kept) |-> InsideRepaired(kept[i])]

\* parseJsonResponse: ok is FALSE where it throws its SyntaxError.
parseJsonResponse(text) == JsonParse(RemoveTrailingCommas(PotentialJson(text)))

\* ------------------------------------------------- parsed values (fields)
\* Nesting depth of position i of a parsed value: 1 for the members of the
\* top-level object.
Depth(v, i) ==
  Cardinality({j \in 1..(i-1) : v[j] \in {"{", "["}})
    - Cardinality({j \in 1..(i-1) : v[j] \in {"}", "]"}})

IsObject(v) == v # <<>> /\ v[1] = "{"

\* Position of the member of the top-level object written with one of the
\* tokens T (the last one wins, as in JSON.parse), 0 when v has none.
TopMember(v, T) ==
  IF IsObject(v) /\ \E i \in 1..Len(v) : v[i] \in T /\ Depth(v, i) = 1
  THEN CHOOSE i \in 1..Len(v) :
         /\ v[i] \in T /\ Depth(v, i) = 1
         /\ \A j \in (i+1)..Len(v) : ~(v[j] \in T /\ Depth(v, j) = 1)
  ELSE 0

HasField(v, T) == TopMember(v, T) # 0

\* The value of the field with key token k, <<>> when the field is missing
\* (JavaScript's undefined).
FieldValue(v, k) ==
  LET i == TopMember(v, {k}) IN
  IF i = 0 THEN <<>> ELSE SubSeq(v, i + 1, ValueEnd(v, i + 1) - 1)

\* typeof result.isChart === 'boolean'
IsChartBoolean(v) ==
  LET i == TopMember(v, {"iT", "iF", "iS"}) IN i # 0 /\ v[i] \in {"iT", "iF"}
IsChartValue(v) ==
  LET i == TopMember(v, {"iT", "iF", "iS"}) IN IF i = 0 THEN "undefined" ELSE v[i]

IsArray(x) == x # <<>> /\ x[1] = "["
\* JavaScript truthiness of a field value: undefined and null are falsy,
\* every number written with the digit 1, every array and object is truthy.
Truthy(x) == x # <<>> /\ x # <<"n">>

\* ------------------------------------------------------------------ state
VARIABLES
  impl,       \* which service file serves the call: "part_005" | "aiService"
  task,       \* "data" (analyzeDataForGraphSuggestions) | "image" (analyzeGraphImage)
  cfg,        \* the provider config the call was given
  apiKeyEnv,  \* whether process.env.API_KEY is set
  pc,         \* "idle" | "awaiting" (the one suspension point) | "done"
  netCalls,   \* outbound network calls issued by this invocation
  sentTo,     \* backend the request went to: "none" | "custom" | "hosted"
  resp,       \* what the backend answered
  raw,        \* the raw model text (responseText / rawResponse / result.text)
  outcome,    \* how the returned promise settled
  xfn,        \* extractor applied to raw on its own: "none" | its name
  xres,       \* what that extractor produced
  auxOp,      \* auxiliary operation: "test" (testCustomModelConnection) | "models" (fetchCustomModels)
  auxCfg,     \* the CustomModelConfig it was given
  auxPc,      \* "off" | "idle" | "awaiting" | "done"
  auxCalls,   \* requests the operation has issued
  auxResp,    \* what the backend answered
  auxOutcome, \* how its promise settled
  auxLog,     \* the operations finished so far: <<op, cfg, resp, outcome>> each
  moduleAi,   \* module-level state of the service file: part_006's `ai` client, "none" elsewhere
  calls,      \* analysis calls in flight side by side: call number -> its own state
  modelConfig,      \* ModelContext: task -> ProviderConfig
  storage,          \* localStorage item 'modelConfig'
  saves,            \* times Save was clicked
  mgrOpen,          \* Header: isModelManagerOpen
  configuring,      \* ModelManager (part_003): the task being configured
  localConfigs,     \* ModelManager (part_003): the copy being edited
  activeTab,        \* ModelManager.tsx: the provider tab
  customConfig,     \* ModelManager.tsx: the custom record being edited
  isLoading,        \* panel: isLoading
  panelError,       \* panel: error ("" stands for null)
  extractedData,    \* GraphToDataPanel: extractedData (<<>> stands for null)
  panelSuggestions, \* DataToGraphPanel: suggestions
  request,          \* the request the digest put on the wire
  digests,          \* times Digest was clicked
  file,             \* panel: file ("none" stands for null)
  url,              \* panel: url
  selectedSuggestion, \* DataToGraphPanel: selectedSuggestion (<<>> stands for null)
  handlers,         \* the handleDigest invocations that have not returned yet
  resultInput,      \* the input (file, url) of the handler whose result is shown
  testStatus,       \* ModelManager: testStatus
  testRuns,         \* the handleTest invocations in flight: the config each tests
  testedConfig,     \* the custom config of the test that settled last
  tests,            \* times Test was clicked
  boot,             \* ModelProvider: "unmounted", "initialised", "mounted", "crashed"
  savedItem,        \* the 'modelConfig' item of localStorage as the provider found it
  item              \* the 'modelConfig' item of localStorage as text, parsed

auxVars == <<auxOp, auxCfg, auxPc, auxCalls, auxResp, auxOutcome, auxLog>>
pairVars == <<moduleAi, calls>>
storeVars == <<modelConfig, storage, saves>>
mgrVars == <<mgrOpen, configuring, localConfigs, activeTab, customConfig>>
panelVars == <<isLoading, panelError, extractedData, panelSuggestions, request, digests>>
inputVars == <<file, url, selectedSuggestion, handlers, resultInput>>
testVars == <<testStatus, testRuns, testedConfig, tests>>
bootVars == <<boot, savedItem, item>>
appVars == <<storeVars, mgrVars, panelVars, inputVars, testVars, bootVars>>

vars ==
  <<impl, task, cfg, apiKeyEnv, pc, netCalls, sentTo, resp, raw, outcome, xfn, xres,
    auxVars, pairVars, appVars>>

Impls == {"part_005", "aiService"}
Tasks == {"data", "image"}

\* ProviderConfig / ModelConfig: { provider, custom?: { baseUrl, apiKey, model } }.
\* A field is "" (empty) or a non-empty string.
Config(provider, hasCustom, baseUrl, apiKey, model) ==
  [provider |-> provider, hasCustom |-> hasCustom,
   baseUrl |-> baseUrl, apiKey |-> apiKey, model |-> model]

Configs ==
  {Config("google", FALSE, "", "", ""), Config("custom", FALSE, "", "", ""),
   Config("custom", TRUE, "u", "k", "m"), Config("custom", TRUE, "", "k", "m"),
   Config("custom", TRUE, "u", "", "m"), Config("custom", TRUE, "u", "k", ""),
   Config("custom", TRUE, "", "", "")}

\* ----------------------------------------------------------------- errors
\* A thrown error: its class, the message it was built from (tag), the
\* HTTP status and body its message quotes, and which of the substrings the
\* catch blocks look for its message contains.
Thrown(class, tag, status, body, mentions) ==
  [class |-> class, tag |-> tag, status |-> status, body |-> body, mentions |-> mentions]

NoError == Thrown("", "", 0, "", {})

\* What a response body of each sort mentions.
BodyMentions(body) ==
  IF body = "non-JSON response" THEN {"JSON", "non-JSON response"}
  ELSE IF body = "JSON" THEN {"JSON"}
  ELSE {}

\* part_005:95 / 247  'Custom model is not configured properly.'
NotConfigured == Thrown("Error", "NotConfigured", 0, "", {})
\* part_005:133 / 292  `Custom model API error: ${status} ${statusText} - ${errorBody}`
CustomModelApiError(status, body) ==
  Thrown("Error", "CustomModelApiError", status, body, BodyMentions(body))
\* part_005:143 / 302  `Custom model returned a non-JSON response. ...`
NonJsonResponse == Thrown("Error", "NonJsonResponse", 0, "", {"JSON", "non-JSON response"})
\* part_005:155 / 314  'Custom model returned malformed JSON. ...'
MalformedJson == Thrown("Error", "MalformedJson", 0, "", {"JSON"})
\* part_005:157 / 316  'Failed to ... with the custom AI model. ...'
FailedCustom == Thrown("Error", "FailedCustom", 0, "", {})
\* part_005:235 / 381  'Failed to ... the AI model. Please check the console ...'
FailedHosted == Thrown("Error", "FailedHosted", 0, "", {})
\* aiService.ts:91  "API_KEY environment variable not set for Google Gemini."
ApiKeyNotSet == Thrown("Error", "ApiKeyNotSet", 0, "", {})
\* aiService.ts:147 / 198  "Custom model configuration is missing."
CustomConfigMissing == Thrown("Error", "CustomConfigMissing", 0, "", {})
\* aiService.ts:162 / 219  `Custom API request failed with status ${res.status}: ${errorText}`
CustomApiFailed(status, body) ==
  Thrown("Error", "CustomApiFailed", status, body, BodyMentions(body))
\* aiService.ts:124  SyntaxError("AI returned an invalid format. Could not parse JSON ...")
CouldNotParse == Thrown("SyntaxError", "CouldNotParse", 0, "", {"JSON"})
\* aiService.ts:175 / 236  "AI returned an invalid format. Please try a different ..."
InvalidFormat == Thrown("Error", "InvalidFormat", 0, "", {})
\* aiService.ts:232  "Invalid response format from AI."
InvalidResponseFormat == Thrown("Error", "InvalidResponseFormat", 0, "", {})
\* Errors the runtime raises: fetch / generateContent rejecting, JSON.parse or
\* response.json() failing, reading a property of undefined or null.
FetchFailed == Thrown("TypeError", "FetchFailed", 0, "", {})
HostedCallFailed == Thrown("Error", "HostedCallFailed", 0, "", {})
NativeSyntaxError == Thrown("SyntaxError", "NativeSyntaxError", 0, "", {"JSON"})
PropertyTypeError == Thrown("TypeError", "PropertyTypeError", 0, "", {})
\* The SDK constructor refusing a missing key (part_005:162 / 321).
SdkKeyError == Thrown("Error", "SdkKeyError", 0, "", {})

\* ---------------------------------------------------------------- outcome
NoOutcome ==
  [res |-> "none", class |-> "", err |-> "", status |-> 0, body |-> "",
   val |-> <<>>, report |-> <<>>, suggestions |-> <<>>]

Rejected(e) ==
  [res |-> "err", class |-> e.class, err |-> e.tag, status |-> e.status,
   body |-> e.body, val |-> <<>>, report |-> <<>>, suggestions |-> <<>>]

Resolved(val, report, suggestions) ==
  [res |-> "ok", class |-> "", err |-> "", status |-> 0, body |-> "",
   val |-> val, report |-> report, suggestions |-> suggestions]

\* How a try block ends: with the value it returns or a thrown error.
Return(result) == [thrown |-> FALSE, error |-> NoError, result |-> result]
Throw(e) == [thrown |-> TRUE, error |-> e, result |-> NoOutcome]

\* -------------------------------------------------------- backend answers
NoResp == [kind |-> "none", status |-> 0, body |-> ""]
TextResp == [kind |-> "text", status |-> 200, body |-> ""]
HttpErrors ==
  {[kind |-> "httpError", status |-> st, body |-> b] :
     st \in {401, 404, 500}, b \in {"plain", "JSON", "non-JSON response"}}
\* fetch / generateContent rejecting; a 2xx body that is not JSON; a 2xx JSON
\* body without choices[0].message.content
Failures(to) ==
  IF to = "custom"
  THEN {[kind |-> k, status |-> IF k = "netFail" THEN 0 ELSE 200, body |-> ""] :
          k \in {"netFail", "bodyNotJson", "noChoices"}}
  ELSE {[kind |-> "netFail", status |-> 0, body |-> ""]}

\* ------------------------------------------------ part_005: the two tasks
\* Lines 92-97 / 244-249 and 161-162 / 320-321: which backend the call goes
\* to, or the error thrown before any request.
Dispatch_part005(c) ==
  IF c.provider = "custom" /\ c.hasCustom
  THEN IF c.baseUrl = "" \/ c.apiKey = "" \/ c.model = ""
       THEN [to |-> "none", error |-> NotConfigured]
       ELSE [to |-> "custom", error |-> NoError]
  ELSE [to |-> "hosted", error |-> NoError]

\* Lines 131-146 / 290-305: the try block after the fetch.
TryCustom_part005(r, text) ==
  IF r.kind = "netFail" THEN Throw(FetchFailed)
  ELSE IF r.kind = "httpError" THEN Throw(CustomModelApiError(r.status, r.body))
  ELSE IF r.kind = "bodyNotJson" THEN Throw(NativeSyntaxError)
  ELSE IF r.kind = "noChoices" THEN Throw(PropertyTypeError)
  ELSE
    LET jsonString == extractJsonString(text) IN
    IF ~jsonString.found THEN Throw(NonJsonResponse)
    ELSE
      LET parsed == JsonParse(jsonString.str) IN
      IF parsed.ok
      THEN Return(Resolved(parsed.val, <<>>, FieldValue(parsed.val, "sg")))
      ELSE Throw(NativeSyntaxError)

\* Lines 148-158 / 307-317: the catch block of the custom branch.
CatchCustom_part005(e) ==
  IF "non-JSON response" \in e.mentions THEN e
  ELSE IF e.class = "SyntaxError" THEN MalformedJson
  ELSE FailedCustom

\* Lines 217-236 / 366-382: the hosted branch: JSON.parse(result.text), and
\* one message for everything that goes wrong.
TryHosted_part005(r, text) ==
  IF r.kind = "netFail" THEN Throw(HostedCallFailed)
  ELSE
    LET parsed == JsonParse(text) IN
    IF parsed.ok
    THEN Return(Resolved(parsed.val, <<>>, FieldValue(parsed.val, "sg")))
    ELSE Throw(NativeSyntaxError)

CatchHosted_part005(e) == FailedHosted

Settle_part005(to, r, text) ==
  LET t == IF to = "custom" THEN TryCustom_part005(r, text) ELSE TryHosted_part005(r, text)
  IN IF ~t.thrown THEN t.result
     ELSE IF to = "custom" THEN Rejected(CatchCustom_part005(t.error))
     ELSE Rejected(CatchHosted_part005(t.error))

\* --------------------------------------------- aiService.ts: the two tasks
\* Lines 136-149 / 185-200: getGoogleAI or the custom record check.
Dispatch_aiService(c, key) ==
  IF c.provider = "google"
  THEN IF ~key THEN [to |-> "none", error |-> ApiKeyNotSet]
       ELSE [to |-> "hosted", error |-> NoError]
  ELSE IF ~c.hasCustom THEN [to |-> "none", error |-> CustomConfigMissing]
       ELSE [to |-> "custom", error |-> NoError]

\* Line 168: rawResponse.substring(0, rawResponse.lastIndexOf('```json'))
ReportPrefix(rawResponse) ==
  LET i == LastIndexOf(rawResponse, {"O"}) IN
  IF i = 0 THEN <<>> ELSE SubSeq(rawResponse, 1, i - 1)

\* Lines 168-170: { report, suggestions: suggestionsResponse.suggestions || [] }
DataResult_aiService(rawResponse, val) ==
  LET suggestions == FieldValue(val, "sg") IN
  Resolved(<<>>, ReportPrefix(rawResponse),
           IF Truthy(suggestions) THEN suggestions ELSE <<"[", "]">>)

\* Lines 145-170 / 196-232: the try block after the request.
Try_aiService(t, to, r, text) ==
  IF r.kind = "netFail"
    THEN Throw(IF to = "custom" THEN FetchFailed ELSE HostedCallFailed)
  ELSE IF r.kind = "httpError" THEN Throw(CustomApiFailed(r.status, r.body))
  ELSE IF r.kind = "bodyNotJson" THEN Throw(NativeSyntaxError)
  ELSE IF r.kind = "noChoices" THEN Throw(PropertyTypeError)
  ELSE
    LET rawResponse == IF to = "hosted" THEN Trim(text) ELSE text
        parsed == parseJsonResponse(rawResponse)
    IN
    IF ~parsed.ok THEN Throw(CouldNotParse)
    ELSE IF parsed.val = <<"n">> THEN Throw(PropertyTypeError)
    ELSE IF t = "data" THEN Return(DataResult_aiService(rawResponse, parsed.val))
    ELSE IF IsChartBoolean(parsed.val) THEN Return(Resolved(parsed.val, <<>>, <<>>))
    ELSE Throw(InvalidResponseFormat)

\* Lines 171-178 / 233-239: the catch block.
Catch_aiService(e) ==
  IF "JSON" \in e.mentions \/ e.class = "SyntaxError" THEN InvalidFormat ELSE e

Settle_aiService(t, to, r, text) ==
  LET b == Try_aiService(t, to, r, text)
  IN IF b.thrown THEN Rejected(Catch_aiService(b.error)) ELSE b.result

\* ------------------------------------------------------------- the texts
Seqs(T, n) == UNION {[1..k -> T] : k \in 0..n}

Wrap(form, d) ==
  IF form = "closed" THEN <<"O">> \o d \o <<"F">>
  ELSE IF form = "open" THEN <<"O">> \o d
  ELSE d
Forms == {"none", "closed", "open"}

\* Texts the extractors are applied to on their own: any short run of JSON
\* tokens or an array around one, bare or fenced, between two short runs of
\* prose (which may hold braces and brackets of its own).
DocTok == {"{", "}", "[", "]", ",", "a", "1", " "}
ProseTok == {"p", " ", "{", "}", "[", "]"}
Docs ==
  Seqs(DocTok, MaxDoc) \cup {<<"[">> \o d \o <<"]">> : d \in Seqs(DocTok, MaxDoc)}
Prose == Seqs(ProseTok, MaxProse)

\* Texts a backend answers with: short runs of tokens, and the objects the
\* prompts ask for (with up to MaxMembers members, with or without a comma
\* before the closing brace), bare or fenced, with or without prose around.
RespTok == {"{", "}", "[", "]", ",", "a", "1", "n", "p", " "}
Entries ==
  {<<m>> : m \in MemberTok \ {"re", "rc", "rx"}}
    \cup {<<"sg", "[", "]">>, <<"sg", "[", "{", "a", "}", "]">>, <<"sg", "1">>, <<"sg", "n">>}
RECURSIVE Join(_)
Join(es) ==
  IF es = <<>> THEN <<>>
  ELSE IF Len(es) = 1 THEN es[1]
  ELSE es[1] \o <<",">> \o Join(Tail(es))
Answers ==
  {<<"{">> \o Join(es) \o tc \o <<"}">> :
     es \in Seqs(Entries, MaxMembers), tc \in {<<>>, <<",">>}}
RespDocs == Seqs(RespTok, MaxRespDoc) \cup Answers
RespProse == {<<>>, <<"p">>}

\* ================================================= auxiliary operations
\* testCustomModelConnection and fetchCustomModels of the two service files.
MaxEntries == 2
MaxCalls == 2

\* CustomModelConfig: a field is "" or a non-empty string.
CustomConfig(baseUrl, apiKey, model) ==
  [baseUrl |-> baseUrl, apiKey |-> apiKey, model |-> model]
AuxConfigs ==
  {CustomConfig("u", "k", "m"), CustomConfig("u", "k", ""),
   CustomConfig("", "k", "m"), CustomConfig("u", "", "m")}

\* Model ids, in the order String comparison (Array.prototype.sort with no
\* comparator) puts them.
IdOrder == <<"gpt", "llama", "qwen">>
Ids == {IdOrder[i] : i \in 1..Len(IdOrder)}
IdRank(id) == CHOOSE i \in 1..Len(IdOrder) : IdOrder[i] = id

\* data.map(model => model.id).sort(): insertion into a sorted list.
RECURSIVE InsertSorted(_, _)
InsertSorted(id, sorted) ==
  IF sorted = <<>> THEN <<id>>
  ELSE IF IdRank(id) <= IdRank(Head(sorted)) THEN <<id>> \o sorted
  ELSE <<Head(sorted)>> \o InsertSorted(id, Tail(sorted))

RECURSIVE SortIds(_)
SortIds(ids) ==
  IF ids = <<>> THEN <<>> ELSE InsertSorted(Head(ids), SortIds(Tail(ids)))

\* The body of a listing answer, by what response.json() makes of it:
\*   "empty", "notJson"  response.json() rejects
\*   "null"              the JSON value null
\*   "object"            a JSON object without a data member, e.g. {}
\*   "dataNotArray"      { data: <not an array> }
\*   "data"              { data: [{id}, ...] }     "bare"  [{id}, ...]
Body(shape, ids) == [shape |-> shape, ids |-> ids]
NoBody == Body("none", <<>>)
ListingBodies ==
  {Body(sh, <<>>) : sh \in {"empty", "notJson", "null", "object", "dataNotArray"}}
    \cup {Body(sh, ids) : sh \in {"data", "bare"}, ids \in Seqs(Ids, MaxEntries)}

AuxAnswer(kind, status, body) == [kind |-> kind, status |-> status, body |-> body]
NoAuxAnswer == AuxAnswer("none", 0, NoBody)
NetFail == AuxAnswer("netFail", 0, NoBody)
OkStatus == {200, 201}
ErrStatus == {401, 403, 404, 500}
\* response.ok
IsOk(r) == r.kind = "http" /\ r.status \in OkStatus

AuxAnswers(op) ==
  {NetFail}
    \cup {AuxAnswer("http", st, NoBody) : st \in ErrStatus}
    \cup (IF op = "test"
          THEN {AuxAnswer("http", st, NoBody) : st \in OkStatus}
          ELSE {AuxAnswer("http", st, b) : st \in OkStatus, b \in ListingBodies})

\* How the promise of an auxiliary operation settles.  value is the list
\* of ids of fetchCustomModels, <<"true">> / <<"false">> for the boolean of
\* aiService.ts's testCustomModelConnection, <<>> for void.
AuxPending == [res |-> "none", err |-> "", status |-> 0, value |-> <<>>]
AuxResolved(value) == [res |-> "ok", err |-> "", status |-> 0, value |-> value]
AuxRejected(err, status) == [res |-> "err", err |-> err, status |-> status, value |-> <<>>]

\* part_005:422-424 / 387-389: the checks before the request; "" when the
\* request goes out.  aiService.ts has no such check.
AuxPrecheck(i, op, c) ==
  IF i # "part_005" THEN ""
  ELSE IF op = "test"
    THEN IF c.baseUrl = "" \/ c.apiKey = "" \/ c.model = "" THEN "FieldsRequired" ELSE ""
  ELSE IF c.baseUrl = "" \/ c.apiKey = "" THEN "UrlAndKeyRequired" ELSE ""

\* part_005:426-455.  A rejected fetch is an Error and is thrown on as it is.
TestConnection_part005(r) ==
  IF r.kind = "netFail" THEN AuxRejected("FetchFailed", 0)
  ELSE IF IsOk(r) THEN AuxResolved(<<>>)
  ELSE IF r.status \in {401, 403} THEN AuxRejected("AuthenticationFailed", r.status)
  ELSE IF r.status = 404 THEN AuxRejected("EndpointNotFound", r.status)
  ELSE AuxRejected("ConnectionFailed", r.status)

\* aiService.ts:242-259: return res.ok, or false from the catch block.
TestConnection_aiService(r) ==
  IF r.kind = "netFail" THEN AuxResolved(<<"false">>)
  ELSE AuxResolved(IF IsOk(r) THEN <<"true">> ELSE <<"false">>)

\* part_005:391-418: every Error is thrown on by the catch block.
FetchModels_part005(r) ==
  IF r.kind = "netFail" THEN AuxRejected("FetchFailed", 0)
  ELSE IF ~IsOk(r)
    THEN IF r.status \in {401, 403} THEN AuxRejected("AuthenticationFailed", r.status)
         ELSE AuxRejected("FetchModelsFailed", r.status)
  ELSE IF r.body.shape \in {"empty", "notJson"} THEN AuxRejected("NativeSyntaxError", 0)
  ELSE IF r.body.shape = "null" THEN AuxRejected("PropertyTypeError", 0)
  ELSE IF r.body.shape \in {"data", "bare"} THEN AuxResolved(SortIds(r.body.ids))
  ELSE AuxResolved(<<>>)

\* aiService.ts:261-281: the empty list for everything but { data: [...] }.
FetchModels_aiService(r) ==
  IF r.kind = "netFail" \/ ~IsOk(r) THEN AuxResolved(<<>>)
  ELSE IF r.body.shape = "data" THEN AuxResolved(SortIds(r.body.ids))
  ELSE AuxResolved(<<>>)

AuxSettle(i, op, r) ==
  IF op = "test"
  THEN IF i = "part_005" THEN TestConnection_part005(r) ELSE TestConnection_aiService(r)
  ELSE IF i = "part_005" THEN FetchModels_part005(r) ELSE FetchModels_aiService(r)

AuxEntry(op, c, r, o) == [op |-> op, cfg |-> c, resp |-> r, outcome |-> o]

AuxOff ==
  /\ auxOp = "test"
  /\ auxCfg = CustomConfig("", "", "")
  /\ auxPc = "off"
  /\ auxCalls = 0
  /\ auxResp = NoAuxAnswer
  /\ auxOutcome = AuxPending
  /\ auxLog = <<>>

\* ---------------------------------------------------------------- actions
Dispatch(i, c, key) ==
  IF i = "part_005" THEN Dispatch_part005(c) ELSE Dispatch_aiService(c, key)

Settle(i, t, to, r, text) ==
  IF i = "part_005" THEN Settle_part005(to, r, text) ELSE Settle_aiService(t, to, r, text)

\* ================================================ calls side by side
MaxInFlight == 2

\* part_006 is the oldest service file: hosted backend only, one client
\* built when the module loads (lines 4-9) and shared by every call.
PairImpls == Impls \cup {"part_006"}

PairConfigs ==
  {Config("google", FALSE, "", "", ""), Config("custom", TRUE, "u", "k", "m"),
   Config("custom", TRUE, "u", "", "m")}

\* part_006:66-75 / 112-126: JSON.parse(response.text.trim()), the isChart
\* check of the image task, and the catch block: a message containing
\* 'JSON' becomes the invalid-format error, everything else the generic one.
Try_part006(t, r, text) ==
  IF r.kind = "netFail" THEN Throw(HostedCallFailed)
  ELSE
    LET parsed == JsonParse(Trim(text)) IN
    IF ~parsed.ok THEN Throw(NativeSyntaxError)
    ELSE IF t = "data" THEN Return(Resolved(parsed.val, <<>>, parsed.val))
    ELSE IF parsed.val = <<"n">> THEN Throw(PropertyTypeError)
    ELSE IF IsChartBoolean(parsed.val) THEN Return(Resolved(parsed.val, <<>>, <<>>))
    ELSE Throw(InvalidResponseFormat)

FailedOldest == Thrown("Error", "FailedOldest", 0, "", {})

Catch_part006(e) == IF "JSON" \in e.mentions THEN InvalidFormat ELSE FailedOldest

Settle_part006(t, r, text) ==
  LET b == Try_part006(t, r, text)
  IN IF b.thrown THEN Rejected(Catch_part006(b.error)) ELSE b.result

PairDispatch(i, c, key) ==
  IF i = "part_006" THEN [to |-> "hosted", error |-> NoError] ELSE Dispatch(i, c, key)

PairSettle(i, t, to, r, text) ==
  IF i = "part_006" THEN Settle_part006(t, r, text) ELSE Settle(i, t, to, r, text)

\* What a backend may answer a call with.
PairTexts ==
  {<<>>, <<"p">>, <<"{", "}">>, <<"{", "a", ",", "}">>,
   <<"{", "iF", ",", "rs", "}">>, <<"{", "iT", ",", "rp", "}">>,
   <<"O", "{", "sg", "[", "{", "a", "}", "]", "}", "F">>}
PairAnswers(to) ==
  {[r |-> TextResp, text |-> x] : x \in PairTexts}
    \cup {[r |-> f, text |-> <<>>] : f \in Failures(to)}
    \cup (IF to = "custom"
          THEN {[r |-> h, text |-> <<>>] : h \in {e \in HttpErrors : e.status = 401}}
          ELSE {})

\* One call: its arguments, where it stands, and what it got.
Call(t, c) ==
  [task |-> t, cfg |-> c, pc |-> "idle", sentTo |-> "none", resp |-> NoResp,
   raw |-> <<>>, outcome |-> NoOutcome]

PairOff ==
  /\ moduleAi = "none"
  /\ calls = <<>>

\* ============================================ manager, context, panels
\* Generation "part_005": ModelManager of part_003, ModelContext of part_008,
\* GraphToDataPanel.tsx:64-145.  Generation "aiService": ModelManager.tsx,
\* ModelContext of part_009, DataToGraphPanel.tsx and
\* GraphToDataPanel.tsx:346-421, where one ProviderConfig serves both tasks
\* (modelConfig then holds it under both task names).
MaxSaves == 1
MaxDigests == 1

GoogleOnly == Config("google", FALSE, "", "", "")
\* part_008:86-89 defaultModelConfig, and a store left by an earlier session.
InitialStores ==
  {[t \in Tasks |-> GoogleOnly], [t \in Tasks |-> Config("custom", TRUE, "u", "k", "m")]}

\* What the user may type into the fields of the custom panel.
FieldValues ==
  {[name |-> "baseUrl", value |-> "u"], [name |-> "baseUrl", value |-> "v"],
   [name |-> "apiKey", value |-> "k"], [name |-> "model", value |-> "m"]}

\* { ...(custom || { baseUrl: '', apiKey: '', model: '' }), [name]: value }
WithField(c, name, value) ==
  IF name = "baseUrl" THEN [c EXCEPT !.hasCustom = TRUE, !.baseUrl = value]
  ELSE IF name = "apiKey" THEN [c EXCEPT !.hasCustom = TRUE, !.apiKey = value]
  ELSE [c EXCEPT !.hasCustom = TRUE, !.model = value]

\* The request a call puts on the wire: POST {baseUrl}/chat/completions with
\* the key and the model of the config, or the hosted SDK call.
NoRequest == [to |-> "none", baseUrl |-> "", apiKey |-> "", model |-> ""]
Request(to, c) ==
  IF to = "custom"
  THEN [to |-> "custom", baseUrl |-> c.baseUrl, apiKey |-> c.apiKey, model |-> c.model]
  ELSE [to |-> to, baseUrl |-> "", apiKey |-> "", model |-> ""]

\* What a backend may answer a digest with.
AppTexts ==
  {<<"p">>, <<"n">>, <<"{", "}">>, <<"{", "rs", "}">>,
   <<"{", "iF", ",", "rs", "}">>, <<"{", "iF", ",", "re", "}">>, <<"{", "iF", "}">>,
   <<"{", "iF", ",", "rs", ",", "rp", "}">>, <<"{", "iS", ",", "rs", "}">>,
   <<"{", "iT", ",", "rp", "}">>,
   <<"O", "{", "sg", "[", "{", "a", "}", "]", "}", "F">>}
AppAnswers(to) ==
  {[r |-> TextResp, text |-> x] : x \in AppTexts}
    \cup {[r |-> f, text |-> <<>>] : f \in Failures(to)}
    \cup (IF to = "custom"
          THEN {[r |-> h, text |-> <<>>] : h \in {e \in HttpErrors : e.status = 401 /\ e.body = "plain"}}
          ELSE {})

\* result.reason: "REASON" for a non-empty string, "" for the empty string
\* and for a missing field (undefined), both falsy.
ReasonOf(v) ==
  LET i == TopMember(v, {"rs", "re"}) IN
  IF i # 0 /\ v[i] = "rs" THEN "REASON" ELSE ""

\* result.isChart as a condition: true and a non-empty string are truthy.
IsChartTruthy(v) == IsChartValue(v) \in {"iT", "iS"}

\* What the panel shows once the awaited call has settled: error,
\* extractedData, suggestions.
\* GraphToDataPanel.tsx:135-143: isChart decides; a null result makes
\* result.isChart throw inside the try block.
\* DataToGraphPanel.tsx:184-192: report and suggestions are taken over.
Shown(e, x, sg) == [error |-> e, extractedData |-> x, suggestions |-> sg]
NotAGraph == "errors.notAGraph"
PanelShows(t, o) ==
  IF o.res = "err" THEN Shown(o.err, <<>>, <<>>)
  ELSE IF t = "data" THEN Shown("", <<>>, o.suggestions)
  ELSE IF o.val = <<"n">> THEN Shown("PropertyTypeError", <<>>, <<>>)
  ELSE IF IsChartTruthy(o.val) THEN Shown("", o.val, <<>>)
  ELSE Shown(IF ReasonOf(o.val) # "" THEN ReasonOf(o.val) ELSE NotAGraph, <<>>, <<>>)

\* No input chosen, nothing running, nothing shown.
NoInput == [file |-> "none", url |-> ""]
InputOff ==
  /\ file = "none"
  /\ url = ""
  /\ selectedSuggestion = <<>>
  /\ handlers = <<>>
  /\ resultInput = NoInput

\* A value of the item and of its two task keys: missing, JSON null, or a
\* provider config.
Slot(present, null, c) == [present |-> present, null |-> null, cfg |-> c]
NoSlot == Slot(FALSE, FALSE, GoogleOnly)
\* The item: getItem's null ("absent"), '' ("empty"), a text JSON.parse
\* rejects ("unparsable"), the JSON texts null and 5 ("null", "scalar"), or an
\* object with some of the keys provider, custom, dataToGraph, graphToData.
Item(kind, provider, hasCustom, d, g) ==
  [kind |-> kind, provider |-> provider, hasCustom |-> hasCustom,
   dataToGraph |-> d, graphToData |-> g]
Bare(kind) == Item(kind, "", FALSE, NoSlot, NoSlot)

BootOff ==
  /\ boot = "mounted"
  /\ savedItem = Bare("absent")
  /\ item = Bare("absent")

TestOff ==
  /\ testStatus = "idle"
  /\ testRuns = <<>>
  /\ testedConfig = CustomConfig("", "", "")
  /\ tests = 0

AppOff ==
  /\ modelConfig = [t \in Tasks |-> GoogleOnly]
  /\ storage = modelConfig
  /\ saves = 0
  /\ mgrOpen = FALSE
  /\ configuring = "data"
  /\ localConfigs = modelConfig
  /\ activeTab = "google"
  /\ customConfig = CustomConfig("", "", "")
  /\ isLoading = FALSE
  /\ panelError = ""
  /\ extractedData = <<>>
  /\ panelSuggestions = <<>>
  /\ request = NoRequest
  /\ digests = 0
  /\ InputOff
  /\ TestOff
  /\ BootOff

NoExtract == [found |-> FALSE, str |-> <<>>, ok |-> FALSE, val |-> <<>>]

Init ==
  /\ impl \in Impls
  /\ task \in Tasks
  /\ cfg \in Configs
  /\ apiKeyEnv \in BOOLEAN
  /\ pc = "idle"
  /\ netCalls = 0
  /\ sentTo = "none"
  /\ resp = NoResp
  /\ raw = <<>>
  /\ outcome = NoOutcome
  /\ xfn = "none"
  /\ xres = NoExtract
  /\ AuxOff
  /\ PairOff
  /\ AppOff

\* analyzeDataForGraphSuggestions / analyzeGraphImage up to their first
\* await: the config checks, then the request (fetch or generateContent).
\* part_005 throws its config error outside the try block; aiService.ts
\* throws inside it, so the error passes through the catch block.
Invoke ==
  /\ pc = "idle"
  /\ LET d == Dispatch(impl, cfg, apiKeyEnv) IN
     IF d.to = "none"
     THEN /\ pc' = "done"
          /\ outcome' = Rejected(IF impl = "aiService" THEN Catch_aiService(d.error)
                                  ELSE d.error)
          /\ UNCHANGED <<netCalls, sentTo>>
     ELSE /\ pc' = "awaiting"
          /\ netCalls' = netCalls + 1
          /\ sentTo' = d.to
          /\ UNCHANGED outcome
  /\ UNCHANGED <<impl, task, cfg, apiKeyEnv, resp, raw, xfn, xres>>
  /\ UNCHANGED <<auxVars, pairVars, appVars>>

\* part_005:162 / 321: new GoogleGenAI({ apiKey: process.env.API_KEY }) with
\* the key unset.  Whether the SDK constructor throws (browser build) or the
\* request goes out and is refused is the SDK's choice: both are allowed.
SdkRejectsKey ==
  /\ pc = "idle"
  /\ impl = "part_005"
  /\ Dispatch_part005(cfg).to = "hosted"
  /\ ~apiKeyEnv
  /\ pc' = "done"
  /\ outcome' = Rejected(SdkKeyError)
  /\ UNCHANGED <<impl, task, cfg, apiKeyEnv, netCalls, sentTo, resp, raw, xfn, xres>>
  /\ UNCHANGED <<auxVars, pairVars, appVars>>

\* The backend answers 2xx with a model text: the rest of the function runs
\* to its return or throw.
RespondText ==
  /\ pc = "awaiting"
  /\ \E pre \in RespProse, post \in RespProse, f \in Forms, d \in RespDocs :
       /\ raw' = pre \o Wrap(f, d) \o post
       /\ outcome' = Settle(impl, task, sentTo, TextResp, raw')
  /\ resp' = TextResp
  /\ pc' = "done"
  /\ UNCHANGED <<impl, task, cfg, apiKeyEnv, netCalls, sentTo, xfn, xres>>
  /\ UNCHANGED <<auxVars, pairVars, appVars>>

\* The custom backend answers with a non-2xx status.
RespondHttpError ==
  /\ pc = "awaiting"
  /\ sentTo = "custom"
  /\ \E r \in HttpErrors :
       /\ resp' = r
       /\ outcome' = Settle(impl, task, sentTo, r, <<>>)
  /\ pc' = "done"
  /\ UNCHANGED <<impl, task, cfg, apiKeyEnv, netCalls, sentTo, raw, xfn, xres>>
  /\ UNCHANGED <<auxVars, pairVars, appVars>>

\* RespondFailure with a retry in it: the failed request is issued once
\* more before the call gives up.
RespondFailure_Reissued ==
  /\ pc = "awaiting"
  /\ \E r \in Failures(sentTo) :
       /\ resp' = r
       /\ IF netCalls < 2
          THEN /\ netCalls' = netCalls + 1
               /\ pc' = "awaiting"
               /\ UNCHANGED outcome
          ELSE /\ outcome' = Settle(impl, task, sentTo, r, <<>>)
               /\ pc' = "done"
               /\ UNCHANGED netCalls
  /\ UNCHANGED <<impl, task, cfg, apiKeyEnv, sentTo, raw, xfn, xres>>
  /\ UNCHANGED <<auxVars, pairVars, appVars>>

\* The request fails, or the 2xx body is not the expected envelope.
RespondFailure ==
  /\ pc = "awaiting"
  /\ \E r \in Failures(sentTo) :
       /\ resp' = r
       /\ outcome' = Settle(impl, task, sentTo, r, <<>>)
  /\ pc' = "done"
  /\ UNCHANGED <<impl, task, cfg, apiKeyEnv, netCalls, sentTo, raw, xfn, xres>>
  /\ UNCHANGED <<auxVars, pairVars, appVars>>

Next == Invoke \/ SdkRejectsKey \/ RespondText \/ RespondHttpError \/ RespondFailure

Spec == Init /\ [][Next]_vars

\* ------------------------------------------- the extractors on their own
InitExtract ==
  /\ \E pre \in Prose, post \in Prose, f \in Forms, d \in Docs :
       raw = pre \o Wrap(f, d) \o post
  /\ impl = "part_005"
  /\ task = "data"
  /\ cfg = Config("google", FALSE, "", "", "")
  /\ apiKeyEnv = TRUE
  /\ pc = "off"
  /\ netCalls = 0
  /\ sentTo = "none"
  /\ resp = NoResp
  /\ outcome = NoOutcome
  /\ xfn = "none"
  /\ xres = NoExtract
  /\ AuxOff
  /\ PairOff
  /\ AppOff

\* part_005:139-146: extractJsonString(responseText), then JSON.parse.
ApplyExtractJsonString ==
  /\ pc = "off"
  /\ xfn = "none"
  /\ xfn' = "extractJsonString"
  /\ LET c == extractJsonString(raw)
         parsed == JsonParse(c.str)
     IN xres' = [found |-> c.found, str |-> c.str,
                 ok |-> c.found /\ parsed.ok,
                 val |-> IF c.found THEN parsed.val ELSE <<>>]
  /\ UNCHANGED <<impl, task, cfg, apiKeyEnv, pc, netCalls, sentTo, resp, raw, outcome>>
  /\ UNCHANGED <<auxVars, pairVars, appVars>>

\* aiService.ts:96-126: parseJsonResponse(text); str is the candidate it
\* holds at line 114, before the repair pass.
ApplyParseJsonResponse ==
  /\ pc = "off"
  /\ xfn = "none"
  /\ xfn' = "parseJsonResponse"
  /\ LET parsed == parseJsonResponse(raw)
     IN xres' = [found |-> TRUE, str |-> PotentialJson(raw),
                 ok |-> parsed.ok, val |-> parsed.val]
  /\ UNCHANGED <<impl, task, cfg, apiKeyEnv, pc, netCalls, sentTo, resp, raw, outcome>>
  /\ UNCHANGED <<auxVars, pairVars, appVars>>

NextExtract == ApplyExtractJsonString \/ ApplyParseJsonResponse

SpecExtract == InitExtract /\ [][NextExtract]_vars

\* ------------------------------- the auxiliary operations on their own
CallOff ==
  /\ task = "data"
  /\ cfg = Config("google", FALSE, "", "", "")
  /\ apiKeyEnv = TRUE
  /\ pc = "off"
  /\ netCalls = 0
  /\ sentTo = "none"
  /\ resp = NoResp
  /\ raw = <<>>
  /\ outcome = NoOutcome
  /\ xfn = "none"
  /\ xres = NoExtract

callVars ==
  <<impl, task, cfg, apiKeyEnv, pc, netCalls, sentTo, resp, raw, outcome, xfn, xres>>

InitAux ==
  /\ impl \in Impls
  /\ CallOff
  /\ auxOp \in {"test", "models"}
  /\ auxCfg \in AuxConfigs
  /\ auxPc = "idle"
  /\ auxCalls = 0
  /\ auxResp = NoAuxAnswer
  /\ auxOutcome = AuxPending
  /\ auxLog = <<>>
  /\ PairOff
  /\ AppOff

\* The operation up to its await: the checks, then the fetch.
AuxInvoke ==
  /\ auxPc = "idle"
  /\ LET e == AuxPrecheck(impl, auxOp, auxCfg) IN
     IF e # ""
     THEN /\ auxPc' = "done"
          /\ auxOutcome' = AuxRejected(e, 0)
          /\ auxLog' = Append(auxLog, AuxEntry(auxOp, auxCfg, auxResp, auxOutcome'))
          /\ UNCHANGED auxCalls
     ELSE /\ auxPc' = "awaiting"
          /\ auxCalls' = auxCalls + 1
          /\ UNCHANGED <<auxOutcome, auxLog>>
  /\ UNCHANGED <<auxOp, auxCfg, auxResp, callVars, pairVars, appVars>>

\* The backend answers (or the fetch rejects) and the operation settles.
AuxRespond ==
  /\ auxPc = "awaiting"
  /\ \E r \in AuxAnswers(auxOp) :
       /\ auxResp' = r
       /\ auxOutcome' = AuxSettle(impl, auxOp, r)
       /\ auxLog' = Append(auxLog, AuxEntry(auxOp, auxCfg, r, auxOutcome'))
  /\ auxPc' = "done"
  /\ UNCHANGED <<auxOp, auxCfg, auxCalls, callVars, pairVars, appVars>>

\* The user clicks again: the same operation is called again, with the
\* same config.
AuxAgain ==
  /\ auxPc = "done"
  /\ Len(auxLog) < MaxCalls
  /\ auxPc' = "idle"
  /\ auxCalls' = 0
  /\ auxResp' = NoAuxAnswer
  /\ auxOutcome' = AuxPending
  /\ UNCHANGED <<auxOp, auxCfg, auxLog, callVars, pairVars, appVars>>

NextAux == AuxInvoke \/ AuxRespond \/ AuxAgain

SpecAux == InitAux /\ [][NextAux]_vars

\* -------------------------------------------------- calls side by side
InitPair ==
  /\ impl \in PairImpls
  /\ CallOff
  /\ AuxOff
  /\ moduleAi = (IF impl = "part_006" THEN "client" ELSE "none")
  /\ calls \in [1..MaxInFlight -> {Call(t, c) : t \in Tasks, c \in PairConfigs}]
  /\ AppOff

\* Call k runs up to its await.
PairInvoke(k) ==
  /\ calls[k].pc = "idle"
  /\ LET c == calls[k]
         d == PairDispatch(impl, c.cfg, apiKeyEnv)
     IN calls' =
          [calls EXCEPT ![k] =
             IF d.to = "none"
             THEN [c EXCEPT !.pc = "done",
                            !.outcome = Rejected(IF impl = "aiService"
                                                 THEN Catch_aiService(d.error)
                                                 ELSE d.error)]
             ELSE [c EXCEPT !.pc = "awaiting", !.sentTo = d.to]]
  /\ UNCHANGED <<moduleAi, callVars, auxVars, appVars>>

\* PairRespond with the task and the backend kept in one module-level
\* slot that the other call has overwritten.
PairRespond_SharedSlot(k) ==
  /\ calls[k].pc = "awaiting"
  /\ \E a \in PairAnswers(calls[k].sentTo) :
       LET c == calls[k]
           o == calls[IF k = 1 THEN 2 ELSE 1]
       IN
       calls' =
         [calls EXCEPT ![k] =
            [c EXCEPT !.pc = "done", !.resp = a.r, !.raw = a.text,
                      !.outcome = PairSettle(impl, o.task, c.sentTo, a.r, a.text)]]
  /\ UNCHANGED <<moduleAi, callVars, auxVars, appVars>>

\* The request of call k is answered and call k runs to its end.
PairRespond(k) ==
  /\ calls[k].pc = "awaiting"
  /\ \E a \in PairAnswers(calls[k].sentTo) :
       LET c == calls[k] IN
       calls' =
         [calls EXCEPT ![k] =
            [c EXCEPT !.pc = "done", !.resp = a.r, !.raw = a.text,
                      !.outcome = PairSettle(impl, c.task, c.sentTo, a.r, a.text)]]
  /\ UNCHANGED <<moduleAi, callVars, auxVars, appVars>>

NextPair == \E k \in 1..MaxInFlight : PairInvoke(k) \/ PairRespond(k)

SpecPair == InitPair /\ [][NextPair]_vars

\* ------------------------------------- manager, context and one panel
callState == <<task, cfg, pc, netCalls, sentTo, resp, raw, outcome>>
mgrFixed == <<impl, apiKeyEnv, xfn, xres, auxVars, pairVars, inputVars, bootVars>>
appFixed == <<mgrFixed, testVars>>

\* The custom record the dialog shows: part_003:31-32 currentCustomConfig,
\* ModelManager.tsx:14 customConfig.
CurrentCustom ==
  IF impl = "part_005"
  THEN LET c == localConfigs[configuring] IN
       IF c.hasCustom THEN CustomConfig(c.baseUrl, c.apiKey, c.model)
       ELSE CustomConfig("", "", "")
  ELSE customConfig

\* The dialog is mounted or unmounted: its state starts afresh, and a test
\* still in flight has no component left to report to.
TestFresh ==
  /\ testStatus' = "idle"
  /\ testRuns' = <<>>
  /\ testedConfig' = CustomConfig("", "", "")
  /\ UNCHANGED tests

\* setTestStatus('idle') of an edit; the tests in flight go on.
TestIdle ==
  /\ testStatus' = "idle"
  /\ UNCHANGED <<testRuns, testedConfig, tests>>


InitApp ==
  /\ impl \in Impls
  /\ task = "data"
  /\ cfg = GoogleOnly
  /\ apiKeyEnv = TRUE
  /\ pc = "idle"
  /\ netCalls = 0
  /\ sentTo = "none"
  /\ resp = NoResp
  /\ raw = <<>>
  /\ outcome = NoOutcome
  /\ xfn = "none"
  /\ xres = NoExtract
  /\ AuxOff
  /\ PairOff
  /\ modelConfig \in InitialStores
  /\ storage = modelConfig
  /\ saves = 0
  /\ mgrOpen = FALSE
  /\ configuring = "data"
  /\ localConfigs = modelConfig
  /\ activeTab = "google"
  /\ customConfig = CustomConfig("", "", "")
  /\ isLoading = FALSE
  /\ panelError = ""
  /\ extractedData = <<>>
  /\ panelSuggestions = <<>>
  /\ request = NoRequest
  /\ digests = 0
  /\ InputOff
  /\ TestOff
  /\ BootOff

\* Header.tsx:14: the manager mounts; its state starts from the context
\* (part_003:14-15, ModelManager.tsx:12-16).
ManagerOpen ==
  /\ ~mgrOpen
  /\ saves < MaxSaves
  /\ mgrOpen' = TRUE
  /\ configuring' = "data"
  /\ localConfigs' = modelConfig
  /\ activeTab' = modelConfig["data"].provider
  /\ customConfig' =
       (LET c == modelConfig["data"] IN
        IF c.hasCustom THEN CustomConfig(c.baseUrl, c.apiKey, c.model)
        ELSE CustomConfig("", "", ""))
  /\ TestFresh
  /\ UNCHANGED <<storeVars, panelVars, callState, mgrFixed>>

\* part_003:136-139: setConfiguring.
SelectTarget ==
  /\ mgrOpen
  /\ impl = "part_005"
  /\ \E t \in Tasks : t # configuring /\ configuring' = t
  /\ UNCHANGED <<mgrOpen, localConfigs, activeTab, customConfig>>
  /\ TestIdle
  /\ UNCHANGED <<storeVars, panelVars, callState, mgrFixed>>

\* part_003:34-40 handleProviderTabClick; ModelManager.tsx: setActiveTab.
ProviderTabClick ==
  /\ mgrOpen
  /\ \E p \in {"google", "custom"} :
       IF impl = "part_005"
       THEN /\ localConfigs[configuring].provider # p \/ testStatus # "idle"
            /\ localConfigs' = [localConfigs EXCEPT ![configuring].provider = p]
            /\ UNCHANGED activeTab
       ELSE /\ activeTab # p
            /\ activeTab' = p
            /\ UNCHANGED localConfigs
  /\ UNCHANGED <<mgrOpen, configuring, customConfig>>
  /\ IF impl = "part_005" THEN TestIdle ELSE UNCHANGED testVars
  /\ UNCHANGED <<storeVars, panelVars, callState, mgrFixed>>

\* CustomConfigChange that writes the edited field through to the shared
\* modelConfig as well.
CustomConfigChange_WritesThrough ==
  /\ mgrOpen
  /\ \E f \in FieldValues :
       IF impl = "part_005"
       THEN /\ localConfigs' =
                 [localConfigs EXCEPT
                    ![configuring] = WithField(localConfigs[configuring], f.name, f.value)]
            /\ localConfigs' # localConfigs
            /\ modelConfig' = localConfigs'
            /\ UNCHANGED customConfig
       ELSE /\ customConfig' = [customConfig EXCEPT ![f.name] = f.value]
            /\ customConfig' # customConfig
            /\ modelConfig' =
                 [t \in Tasks |-> WithField(modelConfig[t], f.name, f.value)]
            /\ UNCHANGED localConfigs
  /\ UNCHANGED <<mgrOpen, configuring, activeTab, storage, saves>>
  /\ TestIdle
  /\ UNCHANGED <<panelVars, callState, mgrFixed>>

\* part_003:42-56 / ModelManager.tsx:22-25 handleCustomConfigChange.
CustomConfigChange ==
  /\ mgrOpen
  /\ \E f \in FieldValues :
       IF impl = "part_005"
       THEN /\ localConfigs' =
                 [localConfigs EXCEPT
                    ![configuring] = WithField(localConfigs[configuring], f.name, f.value)]
            /\ localConfigs' # localConfigs
            /\ UNCHANGED customConfig
       ELSE /\ customConfig' = [customConfig EXCEPT ![f.name] = f.value]
            /\ customConfig' # customConfig
            /\ UNCHANGED localConfigs
  /\ UNCHANGED <<mgrOpen, configuring, activeTab>>
  /\ TestIdle
  /\ UNCHANGED <<storeVars, panelVars, callState, mgrFixed>>

\* part_003:89-92 / ModelManager.tsx:45-52 handleSave, then the effect of
\* the context (part_008:129-135, part_009) that writes the new config to
\* localStorage, then onClose.
ManagerSave ==
  /\ mgrOpen
  /\ modelConfig' =
       (IF impl = "part_005" THEN localConfigs
        ELSE [t \in Tasks |->
                IF activeTab = "google" THEN GoogleOnly
                ELSE Config("custom", TRUE, customConfig.baseUrl, customConfig.apiKey,
                            customConfig.model)])
  /\ storage' = modelConfig'
  /\ saves' = saves + 1
  /\ mgrOpen' = FALSE
  /\ UNCHANGED <<configuring, localConfigs, activeTab, customConfig>>
  /\ TestFresh
  /\ UNCHANGED <<panelVars, callState, mgrFixed>>

\* part_003:130, 166: onClose without saving.
ManagerCancel ==
  /\ mgrOpen
  /\ mgrOpen' = FALSE
  /\ UNCHANGED <<configuring, localConfigs, activeTab, customConfig>>
  /\ TestFresh
  /\ UNCHANGED <<storeVars, panelVars, callState, mgrFixed>>

\* handleDigest up to its first await (GraphToDataPanel.tsx:106-117,
\* DataToGraphPanel.tsx:130-143).  The handler is the one of the current
\* render: the modelConfig it will pass on is the one it closes over now.
\* The data panel of the newer generation is not in the sources.
PanelDigest ==
  /\ pc = "idle"
  /\ digests < MaxDigests
  /\ \E t \in Tasks :
       /\ impl = "aiService" \/ t = "image"
       /\ task' = t
       /\ cfg' = modelConfig[t]
  /\ pc' = "reading"
  /\ isLoading' = TRUE
  /\ panelError' = ""
  /\ extractedData' = <<>>
  /\ panelSuggestions' = <<>>
  /\ request' = NoRequest
  /\ digests' = digests + 1
  /\ UNCHANGED <<netCalls, sentTo, resp, raw, outcome>>
  /\ UNCHANGED <<storeVars, mgrVars, appFixed>>

\* The input could not be read (errors.invalidUrl, errors.urlFetchFailed,
\* errors.fileEmpty): no service call.
PanelInputFails ==
  /\ pc = "reading"
  /\ pc' = "done"
  /\ isLoading' = FALSE
  /\ panelError' = "errors.input"
  /\ UNCHANGED <<extractedData, panelSuggestions, request, digests>>
  /\ UNCHANGED <<task, cfg, netCalls, sentTo, resp, raw, outcome>>
  /\ UNCHANGED <<storeVars, mgrVars, appFixed>>

\* PanelInputReady reading the context at the time of the service call
\* instead of the config the handler closed over.
PanelInputReady_LiveConfig ==
  /\ pc = "reading"
  /\ LET d == Dispatch(impl, modelConfig[task], apiKeyEnv) IN
     IF d.to = "none"
     THEN LET o == Rejected(IF impl = "aiService" THEN Catch_aiService(d.error)
                            ELSE d.error)
              s == PanelShows(task, o)
          IN /\ pc' = "done"
             /\ outcome' = o
             /\ isLoading' = FALSE
             /\ panelError' = s.error
             /\ UNCHANGED <<netCalls, sentTo, request>>
     ELSE /\ pc' = "awaiting"
          /\ netCalls' = netCalls + 1
          /\ sentTo' = d.to
          /\ request' = Request(d.to, modelConfig[task])
          /\ UNCHANGED <<outcome, isLoading, panelError>>
  /\ UNCHANGED <<extractedData, panelSuggestions, digests>>
  /\ UNCHANGED <<task, cfg, resp, raw>>
  /\ UNCHANGED <<storeVars, mgrVars, appFixed>>

\* The input is read and the service is called with the closed-over config
\* (GraphToDataPanel.tsx:133 / 409, DataToGraphPanel.tsx:184): the call runs
\* to its await, or fails on its config and the panel's catch shows the
\* message.
PanelInputReady ==
  /\ pc = "reading"
  /\ LET d == Dispatch(impl, cfg, apiKeyEnv) IN
     IF d.to = "none"
     THEN LET o == Rejected(IF impl = "aiService" THEN Catch_aiService(d.error)
                            ELSE d.error)
              s == PanelShows(task, o)
          IN /\ pc' = "done"
             /\ outcome' = o
             /\ isLoading' = FALSE
             /\ panelError' = s.error
             /\ UNCHANGED <<netCalls, sentTo, request>>
     ELSE /\ pc' = "awaiting"
          /\ netCalls' = netCalls + 1
          /\ sentTo' = d.to
          /\ request' = Request(d.to, cfg)
          /\ UNCHANGED <<outcome, isLoading, panelError>>
  /\ UNCHANGED <<extractedData, panelSuggestions, digests>>
  /\ UNCHANGED <<task, cfg, resp, raw>>
  /\ UNCHANGED <<storeVars, mgrVars, appFixed>>

\* PanelSettle with a panel that shows its own message whenever the model
\* says the image is not a chart.
PanelSettle_OwnMessage ==
  /\ pc = "awaiting"
  /\ \E a \in AppAnswers(sentTo) :
       LET o == Settle(impl, task, sentTo, a.r, a.text)
           s == PanelShows(task, o)
       IN /\ resp' = a.r
          /\ raw' = a.text
          /\ outcome' = o
          /\ panelError' = (IF s.error = "REASON" THEN NotAGraph ELSE s.error)
          /\ extractedData' = s.extractedData
          /\ panelSuggestions' = s.suggestions
  /\ isLoading' = FALSE
  /\ pc' = "done"
  /\ UNCHANGED <<request, digests>>
  /\ UNCHANGED <<task, cfg, netCalls, sentTo>>
  /\ UNCHANGED <<storeVars, mgrVars, appFixed>>

\* The backend answers: the service call settles and the handler runs to
\* its end (try, catch, finally).
PanelSettle ==
  /\ pc = "awaiting"
  /\ \E a \in AppAnswers(sentTo) :
       LET o == Settle(impl, task, sentTo, a.r, a.text)
           s == PanelShows(task, o)
       IN /\ resp' = a.r
          /\ raw' = a.text
          /\ outcome' = o
          /\ panelError' = s.error
          /\ extractedData' = s.extractedData
          /\ panelSuggestions' = s.suggestions
  /\ isLoading' = FALSE
  /\ pc' = "done"
  /\ UNCHANGED <<request, digests>>
  /\ UNCHANGED <<task, cfg, netCalls, sentTo>>
  /\ UNCHANGED <<storeVars, mgrVars, appFixed>>

NextApp ==
  \/ ManagerOpen \/ SelectTarget \/ ProviderTabClick \/ CustomConfigChange
  \/ ManagerSave \/ ManagerCancel
  \/ PanelDigest \/ PanelInputFails \/ PanelInputReady \/ PanelSettle

SpecApp == InitApp /\ [][NextApp]_vars

\* ------------------------------ the data answer: report and suggestions
\* analyzeDataForGraphSuggestions of aiService.ts answered with a text put
\* together from up to MaxParts parts: prose, fence openers and closers,
\* braces, and the object the prompt asks for.
MaxParts == 5

SuggestionsObject == <<"{", "sg", "[", "{", "a", "}", "]", "}">>
SplitParts == {<<"p">>, <<"O">>, <<"F">>, <<"{">>, <<"}">>, <<" ">>, SuggestionsObject}

RECURSIVE Flatten(_)
Flatten(parts) == IF parts = <<>> THEN <<>> ELSE Head(parts) \o Flatten(Tail(parts))

SplitTexts == {Flatten(ps) : ps \in Seqs(SplitParts, MaxParts)}

InitSplit ==
  /\ impl = "aiService"
  /\ task = "data"
  /\ cfg \in {Config("google", FALSE, "", "", ""), Config("custom", TRUE, "u", "k", "m")}
  /\ apiKeyEnv = TRUE
  /\ pc = "idle"
  /\ netCalls = 0
  /\ sentTo = "none"
  /\ resp = NoResp
  /\ raw = <<>>
  /\ outcome = NoOutcome
  /\ xfn = "none"
  /\ xres = NoExtract
  /\ AuxOff
  /\ PairOff
  /\ AppOff

\* The backend answers 2xx with one of the texts; lines 168-178 run.
RespondFenced ==
  /\ pc = "awaiting"
  /\ \E text \in SplitTexts :
       /\ raw' = text
       /\ outcome' = Settle(impl, task, sentTo, TextResp, text)
  /\ resp' = TextResp
  /\ pc' = "done"
  /\ UNCHANGED <<impl, task, cfg, apiKeyEnv, netCalls, sentTo, xfn, xres>>
  /\ UNCHANGED <<auxVars, pairVars, appVars>>

NextSplit == Invoke \/ RespondFenced

SpecSplit == InitSplit /\ [][NextSplit]_vars

\* ------------------------------------------- the repair pass on its own
\* parseJsonResponse applied to short texts whose members may hold a string
\* with a comma before a brace in it.
MaxRepairDoc == 4

RepairTok == {"{", "}", "[", "]", ",", "a", "rc", " "}
RepairDocs == Seqs(RepairTok, MaxRepairDoc)

InitRepair ==
  /\ raw \in RepairDocs
  /\ impl = "aiService"
  /\ task = "data"
  /\ cfg = Config("google", FALSE, "", "", "")
  /\ apiKeyEnv = TRUE
  /\ pc = "off"
  /\ netCalls = 0
  /\ sentTo = "none"
  /\ resp = NoResp
  /\ outcome = NoOutcome
  /\ xfn = "none"
  /\ xres = NoExtract
  /\ AuxOff
  /\ PairOff
  /\ AppOff

SpecRepair == InitRepair /\ [][ApplyParseJsonResponse]_vars

\* ------------------------------------------- the manager and its Test button
MaxTests == 2

CustomShown ==
  IF impl = "part_005" THEN localConfigs[configuring].provider = "custom"
  ELSE activeTab = "custom"

\* part_003:76-78 / ModelManager.tsx:39-41: handleTest up to its await.  The
\* button is disabled while testStatus is 'testing' and without a model.
TestStart ==
  /\ mgrOpen /\ CustomShown
  /\ testStatus # "testing"
  /\ CurrentCustom.model # ""
  /\ tests < MaxTests
  /\ tests' = tests + 1
  /\ testStatus' = "testing"
  /\ testRuns' = Append(testRuns, CurrentCustom)
  /\ UNCHANGED <<testedConfig, storeVars, mgrVars, panelVars, callState, mgrFixed>>

\* part_003:79-86 / ModelManager.tsx:41-42: the awaited
\* testCustomModelConnection settles and handleTest sets the status.
TestSettles(k) ==
  /\ k \in DOMAIN testRuns
  /\ testRuns' = RemoveAt(testRuns, {k}, 1)
  /\ \E ok \in BOOLEAN : testStatus' = (IF ok THEN "success" ELSE "failed")
  /\ testedConfig' = testRuns[k]
  /\ UNCHANGED <<tests, storeVars, mgrVars, panelVars, callState, mgrFixed>>

NextManager ==
  \/ ManagerOpen \/ SelectTarget \/ ProviderTabClick \/ CustomConfigChange
  \/ ManagerSave \/ ManagerCancel
  \/ TestStart
  \/ \E k \in 1..MaxTests : TestSettles(k)

SpecManager == InitApp /\ [][NextManager]_vars

\* ------------------------------------------ ModelProvider at start-up
\* part_008:95-127, the initialiser of useState, and the effect at 129-135.
DefaultModelConfig == [t \in Tasks |-> GoogleOnly]
Slots == {NoSlot, Slot(TRUE, TRUE, GoogleOnly), Slot(TRUE, FALSE, GoogleOnly),
          Slot(TRUE, FALSE, Config("custom", TRUE, "u", "k", "m"))}
StoredItems ==
  {Bare(k) : k \in {"absent", "empty", "unparsable", "null", "scalar"}}
    \cup {Item("object", p, c, d, g) :
            p \in {"", "google", "custom"}, c \in BOOLEAN, d \in Slots, g \in Slots}

\* { ...savedConfig } read as a provider config: provider and custom.
SpreadConfig(i) ==
  IF i.hasCustom THEN Config(i.provider, TRUE, "u", "k", "m")
  ELSE Config(i.provider, FALSE, "", "", "")
\* JSON.stringify of a model config, as JSON.parse reads it back.
Stringified(mc) ==
  Item("object", "", FALSE, Slot(TRUE, FALSE, mc["data"]), Slot(TRUE, FALSE, mc["image"]))
SlotTruthy(x) == x.present /\ ~x.null

\* The body of the try block: "return" with the config and the item left in
\* localStorage, or "throw".
TryInitialiser(i) ==
  IF i.kind \in {"absent", "empty"}
    THEN [how |-> "return", config |-> DefaultModelConfig, item |-> i]
  ELSE IF i.kind = "unparsable"
    THEN [how |-> "throw", config |-> DefaultModelConfig, item |-> i]
  ELSE IF i.kind = "null"
    THEN [how |-> "throw", config |-> DefaultModelConfig, item |-> i]
  ELSE IF i.kind = "scalar"
    THEN [how |-> "return", config |-> DefaultModelConfig, item |-> i]
  ELSE IF i.provider # "" /\ ~SlotTruthy(i.dataToGraph)
    THEN LET migrated == [t \in Tasks |-> SpreadConfig(i)]
         IN [how |-> "return", config |-> migrated, item |-> Stringified(migrated)]
  ELSE IF SlotTruthy(i.dataToGraph) /\ SlotTruthy(i.graphToData)
    THEN [how |-> "return",
          config |-> [t \in Tasks |-> IF t = "data" THEN i.dataToGraph.cfg
                                      ELSE i.graphToData.cfg],
          item |-> i]
  ELSE [how |-> "return", config |-> DefaultModelConfig, item |-> i]

\* The initialiser that knows no legacy shape.
Initialiser_NoMigration(i) ==
  LET r == TryInitialiser(i) IN
  IF r.how = "throw" \/ r.item # i
  THEN [how |-> "return", config |-> DefaultModelConfig, item |-> i]
  ELSE r

\* try { ... } catch { return defaultModelConfig }
Initialiser(i) ==
  LET r == TryInitialiser(i) IN
  IF r.how = "throw" THEN [how |-> "return", config |-> DefaultModelConfig, item |-> i]
  ELSE r

InitStore ==
  /\ impl = "part_005"
  /\ CallOff
  /\ AuxOff
  /\ PairOff
  /\ modelConfig = DefaultModelConfig
  /\ storage = modelConfig
  /\ saves = 0
  /\ mgrOpen = FALSE
  /\ configuring = "data"
  /\ localConfigs = modelConfig
  /\ activeTab = "google"
  /\ customConfig = CustomConfig("", "", "")
  /\ isLoading = FALSE
  /\ panelError = ""
  /\ extractedData = <<>>
  /\ panelSuggestions = <<>>
  /\ request = NoRequest
  /\ digests = 0
  /\ InputOff
  /\ TestOff
  /\ boot = "unmounted"
  /\ savedItem \in StoredItems
  /\ item = savedItem

storeFixed ==
  <<callVars, auxVars, pairVars, saves, mgrVars, panelVars, inputVars, testVars, savedItem>>

\* The provider renders for the first time: useState runs the initialiser.
ProviderInit ==
  /\ boot = "unmounted"
  /\ LET r == Initialiser(item) IN
     IF r.how = "throw"
     THEN /\ boot' = "crashed"
          /\ UNCHANGED <<modelConfig, storage, item>>
     ELSE /\ boot' = "initialised"
          /\ modelConfig' = r.config
          /\ storage' = r.config
          /\ item' = r.item
  /\ UNCHANGED storeFixed

\* The effect after the first render writes modelConfig to localStorage.
PersistEffect ==
  /\ boot = "initialised"
  /\ boot' = "mounted"
  /\ item' = Stringified(modelConfig)
  /\ UNCHANGED <<modelConfig, storage, storeFixed>>

NextStore == ProviderInit \/ PersistEffect

SpecStore == InitStore /\ [][NextStore]_vars

\* ------------------------------------------------- one panel on its own
\* DataToGraphPanel.tsx (task "data", with aiService.ts) or GraphToDataPanel
\* (task "image": lines 64-145 with part_005, lines 346-421 with
\* aiService.ts), its inputs, its Digest handler and what it shows.
MaxClicks == 2

Files == {"good", "bad"}
Urls == {"http", "ftp"}
HasData == file # "none" \/ url # ""

\* One handleDigest invocation: the file and url it closed over and where
\* it stands ("reading" the input, "awaiting" the service).
Handler(f, u) == [file |-> f, url |-> u, pc |-> "reading", to |-> "none"]

\* The elements of a suggestions value: of an array its elements, of
\* anything else (.length is undefined) none.
RECURSIVE ElementsFrom(_, _)
ElementsFrom(v, i) ==
  LET e == ValueEnd(v, i) IN
  IF i > Len(v) \/ e = 0 \/ e > Len(v) THEN <<>>
  ELSE <<SubSeq(v, i, e - 1)>> \o (IF v[e] = "," THEN ElementsFrom(v, e + 1) ELSE <<>>)
ArrayElements(v) ==
  IF IsArray(v) /\ v # <<"[", "]">> THEN ElementsFrom(v, 2) ELSE <<>>

\* A value as React state holds it: JSON null is null.
AsState(x) == IF x = <<"n">> THEN <<>> ELSE x

PanelTexts ==
  AppTexts \cup
    {<<"{", "sg", "[", "{", "a", "}", ",", "{", "}", "]", "}">>,
     <<"{", "sg", "[", "n", "]", "}">>, <<"{", "sg", "1", "}">>,
     <<"{", "sg", "[", "]", "}">>}
PanelAnswers(to) ==
  {[r |-> TextResp, text |-> x] : x \in PanelTexts}
    \cup {[r |-> f, text |-> <<>>] : f \in Failures(to)}

\* How reading the input ends (GraphToDataPanel.tsx:117-131,
\* DataToGraphPanel.tsx:141-181): "ok" or the message that is shown.
ReadResults(t, h) ==
  IF h.file = "good" THEN {"ok"}
  ELSE IF h.file = "bad"
    THEN IF t = "image" THEN {"errors.unknown"}
         ELSE {"errors.fileEmpty", "SyntaxError", "PropertyTypeError"}
  ELSE IF h.url = "ftp" THEN {"errors.invalidUrl"}
  ELSE {"ok", "errors.urlFetchFailed", "FetchFailed"}
         \cup (IF t = "data" THEN {"errors.fileEmpty"} ELSE {})

Without(seq, k) == RemoveAt(seq, {k}, 1)

InitPanel ==
  /\ impl \in Impls
  /\ task \in Tasks
  /\ impl = "aiService" \/ task = "image"
  /\ cfg \in {GoogleOnly, Config("custom", TRUE, "u", "k", "m")}
  /\ apiKeyEnv = TRUE
  /\ pc = "off"
  /\ netCalls = 0
  /\ sentTo = "none"
  /\ resp = NoResp
  /\ raw = <<>>
  /\ outcome = NoOutcome
  /\ xfn = "none"
  /\ xres = NoExtract
  /\ AuxOff
  /\ PairOff
  /\ AppOff

panelFixed ==
  <<impl, task, cfg, apiKeyEnv, pc, netCalls, sentTo, xfn, xres, auxVars, pairVars,
    storeVars, mgrVars, request, testVars, bootVars>>

\* cleanup (GraphToDataPanel.tsx:75-82) / resetState (DataToGraphPanel.tsx:104-110).
Cleanup ==
  /\ panelError' = ""
  /\ extractedData' = <<>>
  /\ panelSuggestions' = <<>>
  /\ selectedSuggestion' = <<>>
  /\ resultInput' = NoInput

\* handleFileUpload; the FileUpload control is disabled while isLoading.
FileUpload ==
  /\ ~isLoading
  /\ \E f \in Files : file' = f
  /\ url' = ""
  /\ Cleanup
  /\ UNCHANGED <<isLoading, handlers, digests, resp, raw, outcome, panelFixed>>

\* handleUrlChange; the input is disabled while isLoading.
UrlChange ==
  /\ ~isLoading
  /\ \E u \in Urls \cup {""} : u # url /\ url' = u
  /\ file' = "none"
  /\ Cleanup
  /\ UNCHANGED <<isLoading, handlers, digests, resp, raw, outcome, panelFixed>>

\* handleClear; the button is rendered only with an input and not while
\* isLoading.  GraphToDataPanel.tsx:346-421 has no Clear.
Clear ==
  /\ HasData /\ ~isLoading
  /\ ~(impl = "aiService" /\ task = "image")
  /\ file' = "none"
  /\ url' = ""
  /\ Cleanup
  /\ UNCHANGED <<isLoading, handlers, digests, resp, raw, outcome, panelFixed>>

\* Digest with a button that stays enabled while isLoading.
Digest_AlwaysEnabled ==
  /\ HasData
  /\ digests < MaxClicks
  /\ digests' = digests + 1
  /\ handlers' = Append(handlers, Handler(file, url))
  /\ isLoading' = TRUE
  /\ Cleanup
  /\ UNCHANGED <<file, url, resp, raw, outcome, panelFixed>>

\* The Digest button (disabled without an input and while isLoading):
\* handleDigest runs to its first await.
Digest ==
  /\ HasData /\ ~isLoading
  /\ digests < MaxClicks
  /\ digests' = digests + 1
  /\ handlers' = Append(handlers, Handler(file, url))
  /\ isLoading' = TRUE
  /\ Cleanup
  /\ UNCHANGED <<file, url, resp, raw, outcome, panelFixed>>

\* InputRead whose empty-content path returns with isLoading still set.
InputRead_NoFinally(k) ==
  /\ k \in DOMAIN handlers
  /\ handlers[k].pc = "reading"
  /\ \E res \in ReadResults(task, handlers[k]) :
       IF res = "ok"
       THEN /\ handlers' = [handlers EXCEPT ![k].pc = "awaiting",
                                            ![k].to = Dispatch(impl, cfg, apiKeyEnv).to]
            /\ UNCHANGED <<isLoading, panelError, resultInput>>
       ELSE /\ handlers' = Without(handlers, k)
            /\ panelError' = res
            /\ resultInput' = [file |-> handlers[k].file, url |-> handlers[k].url]
            /\ isLoading' = (res = "errors.fileEmpty")
  /\ UNCHANGED <<file, url, extractedData, panelSuggestions, selectedSuggestion, digests>>
  /\ UNCHANGED <<resp, raw, outcome, panelFixed>>

\* Handler k has its input read: it calls the service, or shows why it
\* could not (throw into catch, or the empty-content return) and ends with
\* isLoading false.
InputRead(k) ==
  /\ k \in DOMAIN handlers
  /\ handlers[k].pc = "reading"
  /\ \E res \in ReadResults(task, handlers[k]) :
       IF res = "ok"
       THEN /\ handlers' = [handlers EXCEPT ![k].pc = "awaiting",
                                            ![k].to = Dispatch(impl, cfg, apiKeyEnv).to]
            /\ UNCHANGED <<isLoading, panelError, resultInput>>
       ELSE /\ handlers' = Without(handlers, k)
            /\ panelError' = res
            /\ resultInput' = [file |-> handlers[k].file, url |-> handlers[k].url]
            /\ isLoading' = FALSE
  /\ UNCHANGED <<file, url, extractedData, panelSuggestions, selectedSuggestion, digests>>
  /\ UNCHANGED <<resp, raw, outcome, panelFixed>>

\* The service call of handler k settles; the handler shows the result or
\* the error and ends (GraphToDataPanel.tsx:133-144,
\* DataToGraphPanel.tsx:184-194).
ServiceSettles(k) ==
  /\ k \in DOMAIN handlers
  /\ handlers[k].pc = "awaiting"
  /\ \E a \in PanelAnswers(handlers[k].to) :
       LET o == Settle(impl, task, handlers[k].to, a.r, a.text)
           s == PanelShows(task, o)
           first == ArrayElements(s.suggestions)
       IN /\ resp' = a.r
          /\ raw' = a.text
          /\ outcome' = o
          /\ panelError' = (IF s.error # "" THEN s.error ELSE panelError)
          /\ extractedData' = (IF s.extractedData # <<>> THEN s.extractedData
                               ELSE extractedData)
          /\ panelSuggestions' = (IF o.res = "ok" /\ task = "data" THEN s.suggestions
                                  ELSE panelSuggestions)
          /\ selectedSuggestion' = (IF first # <<>> THEN AsState(first[1])
                                    ELSE selectedSuggestion)
  /\ resultInput' = [file |-> handlers[k].file, url |-> handlers[k].url]
  /\ handlers' = Without(handlers, k)
  /\ isLoading' = FALSE
  /\ UNCHANGED <<file, url, digests, panelFixed>>

\* A suggestion button (DataToGraphPanel.tsx:253-261).
SuggestionClick ==
  /\ task = "data"
  /\ \E i \in DOMAIN ArrayElements(panelSuggestions) :
       /\ selectedSuggestion' = AsState(ArrayElements(panelSuggestions)[i])
       /\ selectedSuggestion' # selectedSuggestion
  /\ UNCHANGED <<file, url, isLoading, panelError, extractedData, panelSuggestions,
                 handlers, resultInput, digests, resp, raw, outcome, panelFixed>>

NextPanel ==
  \/ FileUpload \/ UrlChange \/ Clear \/ Digest \/ SuggestionClick
  \/ \E k \in 1..MaxClicks : InputRead(k) \/ ServiceSettles(k)

SpecPanel == InitPanel /\ [][NextPanel]_vars

\* Reading an input and a pending service call always end.
SpecPanelFair ==
  /\ SpecPanel
  /\ \A k \in 1..MaxClicks : WF_vars(InputRead(k)) /\ WF_vars(ServiceSettles(k))

\* ============================================================== claims
\* ------------------------------------------------------------------- C1
BacktickAt(text) == {i \in 1..Len(text) : text[i] \in BacktickTok}

\* The text holds exactly one ```json and, after it, exactly one ```: one
\* closed fence and no other backticks.
OneFence(text) ==
  /\ Cardinality(BacktickAt(text)) = 2
  /\ IndexOf(text, {"O"}) # 0
  /\ LastIndexOf(text, {"F"}) > IndexOf(text, {"O"})

FenceInterior(text) ==
  SubSeq(text, IndexOf(text, {"O"}) + 1, LastIndexOf(text, {"F"}) - 1)

OneFencedJson(text) == OneFence(text) /\ IsJson(FenceInterior(text))

\* C1: for every raw text with exactly one well-formed ```json fenced block
\* and any prose around it, the extractor returns a string that parses to
\* the same JSON value as the interior of the fence.
C1_FencedInteriorRecovered ==
  (xfn # "none" /\ OneFencedJson(raw)) =>
    /\ xres.found
    /\ IsJson(xres.str)
    /\ JsonParse(xres.str).val = JsonParse(FenceInterior(raw)).val

\* ------------------------------------------------------------------- C2
NoFence(text) == BacktickAt(text) = {}

\* text[i..j] is a JSON object, brace to brace, and no token outside it is
\* in T.
ObjectInProse(text, i, j, T) ==
  /\ text[i] = "{" /\ text[j] = "}"
  /\ IsJson(SubSeq(text, i, j))
  /\ \A k \in 1..Len(text) : (k < i \/ k > j) => text[k] \notin T

Spans(text) == {ij \in (1..Len(text)) \X (1..Len(text)) : ij[1] < ij[2]}

\* C2 as stated: for every raw text with no fence and one balanced
\* top-level JSON object embedded in prose (the text as a whole is not
\* JSON, and the prose holds no brace of its own, so that the object is the
\* only one, but is otherwise any prose), the extractor returns exactly the
\* span of the object.
C2_ObjectSpanAnyProse ==
  \A ij \in Spans(raw) :
    (xfn # "none" /\ NoFence(raw) /\ ~IsJson(raw)
       /\ ObjectInProse(raw, ij[1], ij[2], {"{", "}"})) =>
      xres.found /\ xres.str = SubSeq(raw, ij[1], ij[2])

\* C2 amended: for every raw text with no fence and one balanced top-level
\* JSON object embedded in prose that holds no brace and no bracket, the
\* extractor returns exactly the span of the object.
C2_ObjectSpanPlainProse ==
  \A ij \in Spans(raw) :
    (xfn # "none" /\ NoFence(raw)
       /\ ObjectInProse(raw, ij[1], ij[2], {"{", "}", "[", "]"})) =>
      xres.found /\ xres.str = SubSeq(raw, ij[1], ij[2])

\* An object with a member, prose on both sides, extractJsonString applied.
C2_Witness ==
  /\ xfn = "extractJsonString"
  /\ NoFence(raw)
  /\ Len(raw) >= 5
  /\ ObjectInProse(raw, 2, Len(raw) - 1, {"{", "}", "[", "]"})
  /\ raw[1] = "p" /\ raw[Len(raw)] = "p"
  /\ xres.str = SubSeq(raw, 2, Len(raw) - 1)
\* ------------------------------------------------- the kinds of failure
\* The messages of the two services, by the kind of failure they name.
ExtractionErrs == {"NonJsonResponse"}
MalformedErrs == {"MalformedJson", "InvalidFormat"}
ConfigErrs == {"NotConfigured", "CustomConfigMissing", "ApiKeyNotSet"}
StatusErrs == {"CustomModelApiError", "CustomApiFailed"}
SchemaErrs == {"InvalidResponseFormat"}

\* A call that got a 2xx answer with a model text and has run to its end.
TextSettled == pc = "done" /\ resp.kind = "text"

\* The text the service works on (aiService.ts:145 trims the hosted text).
RawResponse ==
  IF impl = "aiService" /\ sentTo = "hosted" THEN Trim(raw) ELSE raw

\* The candidate the call hands to its repair pass or to JSON.parse.
PathCandidate ==
  IF impl = "aiService" THEN Candidate(PotentialJson(RawResponse))
  ELSE IF sentTo = "custom" THEN extractJsonString(raw)
  ELSE Candidate(raw)

\* The value JSON.parse gave the call, if it gave one.
PathParsed ==
  IF impl = "aiService" THEN parseJsonResponse(RawResponse)
  ELSE IF PathCandidate.found THEN JsonParse(PathCandidate.str)
  ELSE [ok |-> FALSE, val |-> <<>>]

\* ------------------------------------------------------------------- C3
\* C3: for every raw text that holds neither an opening brace nor an
\* opening bracket (the empty text and a fence around non-JSON included),
\* the call fails with the extraction error, never with a parse error, a
\* generic error or a success.
C3_NoOpenerIsExtractionError ==
  (TextSettled /\ IndexOf(raw, {"{", "["}) = 0) =>
    outcome.res = "err" /\ outcome.err \in ExtractionErrs

\* ------------------------------------------------------------------- C4
\* The candidate is not JSON as it stands and is JSON once every comma
\* standing before a closing brace or bracket is taken out.
OnlyTrailingCommasWrong(c) == ~IsJson(c) /\ IsJson(RemoveTrailingCommas(c))

\* C4: in every analysis path, a candidate that is valid JSON except for
\* commas before a closing brace or bracket is repaired and parsed: the
\* call goes on with the value the candidate has without those commas.
C4_TrailingCommasRepaired ==
  (TextSettled /\ PathCandidate.found /\ OnlyTrailingCommasWrong(PathCandidate.str)) =>
    /\ PathParsed.ok
    /\ PathParsed.val = JsonParse(RemoveTrailingCommas(PathCandidate.str)).val
    /\ outcome.err \notin MalformedErrs \cup {"FailedCustom", "FailedHosted"}

\* ------------------------------------------------------------------- C5
\* C5: whenever the candidate of a call does not parse, the call fails
\* with the malformed-JSON error, and it has made no further request.
C5_UnparsableIsMalformedJson ==
  (TextSettled /\ PathCandidate.found /\ ~PathParsed.ok) =>
    /\ outcome.res = "err"
    /\ outcome.err \in MalformedErrs
    /\ netCalls = 1

\* ------------------------------------------------------------------- C6
CustomIncomplete(c) ==
  c.provider = "custom" /\ (~c.hasCustom \/ c.baseUrl = "" \/ c.apiKey = "" \/ c.model = "")

\* C6: a call whose provider kind is custom and whose custom record is
\* absent or has an empty field fails with a configuration error and
\* makes no request of any kind.
C6_IncompleteCustomFailsFast ==
  (pc # "idle" /\ CustomIncomplete(cfg)) =>
    /\ netCalls = 0
    /\ pc = "done"
    /\ outcome.res = "err"
    /\ outcome.err \in ConfigErrs

\* ------------------------------------------------------------------- C7
\* C7: whenever the custom backend answers with a non-2xx status, the call
\* fails with the transport error that carries that status and that body,
\* never with another kind.
C7_HttpErrorKeepsStatusAndBody ==
  (pc = "done" /\ resp.kind = "httpError") =>
    /\ outcome.res = "err"
    /\ outcome.err \in StatusErrs
    /\ outcome.status = resp.status
    /\ outcome.body = resp.body

\* ------------------------------------------------------------------- C8
\* The configuration passes the checks of the call: the hosted provider
\* with its key set, or the custom provider with a complete record.
ValidConfig ==
  \/ cfg.provider = "google" /\ apiKeyEnv
  \/ cfg.provider = "custom" /\ cfg.hasCustom
       /\ cfg.baseUrl # "" /\ cfg.apiKey # "" /\ cfg.model # ""

\* C8: every call with a valid provider configuration makes exactly one
\* request, whatever its outcome: none before it starts, one from then
\* on, and none more after a failure.
C8_ExactlyOneRequest ==
  (pc \in {"idle", "awaiting", "done"} /\ ValidConfig) =>
    netCalls = IF pc = "idle" THEN 0 ELSE 1

\* A call with a valid configuration that has failed after its request.
C8_Witness ==
  /\ ValidConfig
  /\ pc = "done"
  /\ resp.kind \in {"netFail", "httpError"}
  /\ outcome.res = "err"
  /\ netCalls = 1

\* ------------------------------------------------------------------- C9
RequiredFields(t, v) ==
  IF t = "image" THEN IsChartBoolean(v) ELSE IsArray(FieldValue(v, "sg"))

\* C9: a call resolves only if the parsed value has the required typed
\* field of its task (isChart a boolean for the image task, suggestions an
\* array for the data task); for every parsed value without it the call
\* fails with a schema error, on either backend.
C9_RequiredFieldsOrSchemaError ==
  (TextSettled /\ PathParsed.ok) =>
    IF RequiredFields(task, PathParsed.val)
    THEN TRUE
    ELSE outcome.res = "err" /\ outcome.err \in SchemaErrs

\* ------------------------------------------------------------------ C10
\* C10: in every value analyzeGraphImage resolves with, isChart false comes
\* with a reason and without report and data, and isChart true comes with
\* a report or data and without a reason.
C10_IsChartDecidesFields ==
  (pc = "done" /\ task = "image" /\ outcome.res = "ok") =>
    LET v == outcome.val IN
    /\ IsChartValue(v) = "iF" =>
         HasField(v, {"rs"}) /\ ~HasField(v, {"rp"}) /\ ~HasField(v, {"dt"})
    /\ IsChartValue(v) = "iT" =>
         (HasField(v, {"rp"}) \/ HasField(v, {"dt"})) /\ ~HasField(v, {"rs"})

\* ------------------------------------------------------------------ C11
NonEmptyArray(x) == IsArray(x) /\ x # <<"[", "]">>

\* C11: for every model response, analyzeDataForGraphSuggestions either
\* resolves with a non-empty suggestions array or fails; it never
\* resolves with an empty or missing suggestions list.
C11_NoEmptySuccess ==
  (pc = "done" /\ task = "data" /\ outcome.res = "ok") =>
    NonEmptyArray(outcome.suggestions)

\* ------------------------------------------------------------------ C12
\* The connection test has been answered (or its fetch has rejected).
TestAnswered == auxPc = "done" /\ auxOp = "test" /\ auxResp.kind # "none"

\* The test reports success: it resolves, and not with false.
TestSucceeded(o) == o.res = "ok" /\ o.value # <<"false">>

AuthErrs == {"AuthenticationFailed"}
NotFoundErrs == {"EndpointNotFound"}
ConnectionErrs == {"ConnectionFailed", "FetchFailed"}

\* The error kind the outcome of the request calls for.
TestKindFor(r) ==
  IF r.kind = "http" /\ r.status \in {401, 403} THEN AuthErrs
  ELSE IF r.kind = "http" /\ r.status = 404 THEN NotFoundErrs
  ELSE ConnectionErrs

\* C12: testCustomModelConnection succeeds for every 2xx answer, and
\* otherwise fails with the kind its outcome calls for: 401 / 403 the
\* authentication error, 404 the endpoint-not-found error, every other
\* non-2xx status and every rejected fetch the connection error.
C12_TestClassifiedByOutcome ==
  TestAnswered =>
    IF IsOk(auxResp) THEN TestSucceeded(auxOutcome)
    ELSE auxOutcome.res = "err" /\ auxOutcome.err \in TestKindFor(auxResp)

\* ------------------------------------------------------------------ C13
ListingAnswered == auxPc = "done" /\ auxOp = "models" /\ IsOk(auxResp)

\* C13: for a listing answer whose body is empty, not JSON, null, or JSON
\* of an unexpected shape, fetchCustomModels resolves with the empty list
\* instead of throwing.
C13_MalformedListingIsEmptyList ==
  (ListingAnswered
     /\ auxResp.body.shape \in {"empty", "notJson", "null", "object", "dataNotArray"}) =>
    auxOutcome.res = "ok" /\ auxOutcome.value = <<>>

\* ------------------------------------------------------------------ C14
Count(ids, id) == Cardinality({i \in 1..Len(ids) : ids[i] = id})
SameIds(a, b) == \A id \in Ids : Count(a, id) = Count(b, id)
Ascending(ids) ==
  \A i \in 1..Len(ids), j \in 1..Len(ids) : i < j => IdRank(ids[i]) <= IdRank(ids[j])

\* C14: for a 2xx listing answer whose body is {data: [{id}, ...]} or the
\* bare array [{id}, ...], fetchCustomModels resolves with exactly the ids
\* of the entries, in ascending order (hence the same list for both
\* shapes of body).
C14_ListingIdsSorted ==
  (ListingAnswered /\ auxResp.body.shape \in {"data", "bare"}) =>
    /\ auxOutcome.res = "ok"
    /\ SameIds(auxOutcome.value, auxResp.body.ids)
    /\ Ascending(auxOutcome.value)

\* ------------------------------------------------------------------ C19
TestsLogged == {i \in 1..Len(auxLog) : auxLog[i].op = "test"}

\* C19: the connection test is deterministic: two calls with the same
\* config that are answered the same way have the same outcome, a call
\* answered 2xx succeeds, and a call answered 401 / 403 has the
\* authentication error.
C19_TestDeterministic ==
  /\ \A i \in TestsLogged, j \in TestsLogged :
       (auxLog[i].cfg = auxLog[j].cfg /\ auxLog[i].resp = auxLog[j].resp) =>
         auxLog[i].outcome = auxLog[j].outcome
  /\ \A i \in TestsLogged :
       /\ IsOk(auxLog[i].resp) => TestSucceeded(auxLog[i].outcome)
       /\ (auxLog[i].resp.kind = "http" /\ auxLog[i].resp.status \in {401, 403}) =>
            auxLog[i].outcome.res = "err" /\ auxLog[i].outcome.err \in AuthErrs

\* ------------------------------------------------------------------ C15
\* What call c comes to when it runs alone: from its own task, config and
\* answer.
OwnOutcome(c) ==
  LET d == PairDispatch(impl, c.cfg, apiKeyEnv) IN
  IF d.to = "none"
  THEN Rejected(IF impl = "aiService" THEN Catch_aiService(d.error) ELSE d.error)
  ELSE PairSettle(impl, c.task, d.to, c.resp, c.raw)

EachCallOnItsOwn ==
  \A k \in DOMAIN calls :
    /\ calls[k].pc # "idle" => calls[k].sentTo = PairDispatch(impl, calls[k].cfg, apiKeyEnv).to
    /\ calls[k].pc = "done" => calls[k].outcome = OwnOutcome(calls[k])

\* C15: two analysis calls in flight at the same time do not interfere:
\* under every interleaving each call ends with the outcome its own task,
\* config and answer give, a settled call is not touched by a step of the
\* other, and no step writes the module-level state.
C15_CallsDoNotInterfere ==
  /\ []EachCallOnItsOwn
  /\ [][/\ moduleAi' = moduleAi
       /\ \A k \in DOMAIN calls : calls[k].pc = "done" => calls'[k] = calls[k]]_vars

\* Both calls were sent to the same backend, got different answers and
\* ended differently.
C15_Witness ==
  /\ calls # <<>>
  /\ calls[1].pc = "done" /\ calls[2].pc = "done"
  /\ calls[1].sentTo = calls[2].sentTo /\ calls[1].sentTo # "none"
  /\ calls[1].task # calls[2].task
  /\ calls[1].outcome.res = "ok" /\ calls[2].outcome.res = "err"

\* ------------------------------------------------------------------ C16
\* What the call that was started with config c sends and how it ends.
RequestOf(c) ==
  LET d == Dispatch(impl, c, apiKeyEnv) IN
  IF d.to = "none" THEN NoRequest ELSE Request(d.to, c)

ServiceCalled == pc \in {"awaiting", "done"} /\ panelError # "errors.input"

StartedWithConfigUsed ==
  /\ ServiceCalled =>
       /\ sentTo = Dispatch(impl, cfg, apiKeyEnv).to
       /\ request = RequestOf(cfg)
  /\ (ServiceCalled /\ pc = "done") =>
       outcome = (LET d == Dispatch(impl, cfg, apiKeyEnv) IN
                  IF d.to = "none"
                  THEN Rejected(IF impl = "aiService" THEN Catch_aiService(d.error)
                                ELSE d.error)
                  ELSE Settle(impl, task, d.to, resp, raw))

CallKeepsItsConfig ==
  /\ (pc = "idle" /\ pc' = "reading") => cfg' = modelConfig[task']
  /\ pc \in {"reading", "awaiting"} => (cfg' = cfg /\ task' = task)
  /\ pc = "awaiting" => request' = request

\* C16: the provider config is fixed for the duration of one analysis call.
\* The config of a call is the one in the context when Digest was clicked;
\* it does not change while the call runs, whatever is saved meanwhile, and
\* the backend, the endpoint, the credential and the model of the call's
\* request and the processing of its response are those of that config.
C16_ConfigFixedForTheCall ==
  /\ []StartedWithConfigUsed
  /\ [][CallKeepsItsConfig]_vars

\* A call to one custom endpoint has resolved after the user saved another
\* custom endpoint for its task.
C16_Witness ==
  /\ pc = "done" /\ outcome.res = "ok"
  /\ saves = 1
  /\ cfg # modelConfig[task]
  /\ request.to = "custom" /\ request.baseUrl = "u"
  /\ Dispatch(impl, modelConfig[task], apiKeyEnv).to = "custom"
  /\ modelConfig[task].baseUrl = "v"

\* ------------------------------------------------------------------ C17
ImageAnswered == pc = "done" /\ task = "image" /\ resp.kind = "text"

CompleteCustom(c) ==
  c.provider = "custom" /\ c.hasCustom /\ c.baseUrl # "" /\ c.apiKey # "" /\ c.model # ""

\* The user has saved a configuration in which the custom provider is
\* selected, with all its details, and the manager is closed; no task holds
\* a custom record that the user has switched back to the hosted provider.
CustomSaved ==
  /\ saves > 0
  /\ ~mgrOpen
  /\ \E t \in Tasks : CompleteCustom(modelConfig[t])
  /\ \A t \in Tasks : CompleteCustom(modelConfig[t]) \/ modelConfig[t] = GoogleOnly

SavedEndpoints == {modelConfig[t].baseUrl : t \in {u \in Tasks : CompleteCustom(modelConfig[u])}}

\* C18: once the custom provider is selected and saved, the configuration
\* is in local storage under 'modelConfig', and the request of every
\* analysis started from then on, of either task, goes to the saved custom
\* endpoint and not to the hosted backend.
C18_SavedCustomServesBothTasks ==
  CustomSaved =>
    /\ storage = modelConfig
    /\ (ServiceCalled /\ cfg = modelConfig[task]) =>
         /\ request.to = "custom"
         /\ request.baseUrl \in SavedEndpoints

\* ------------------------------------------------------------------ C20
Openers == {"{", "["}
CloserOf(o) == IF o = "{" THEN "}" ELSE "]"

\* The span from the earliest opener of the text to the last closer of
\* that opener's kind, <<>> when there is no such closer after it.
MatchingSpan(text) ==
  LET first == IndexOf(text, Openers)
      last == IF first = 0 THEN 0 ELSE LastIndexOf(text, {CloserOf(text[first])})
  IN IF first # 0 /\ last > first THEN SubSeq(text, first, last) ELSE <<>>

\* C20: for a text without fence that holds an opener, the candidate an
\* extractor returns starts at the earliest '{' or '[' and ends at the last
\* closer of the kind of that opener, so its first and last characters are
\* a matching pair.
C20_CandidateIsMatchingSpan ==
  (xfn # "none" /\ xres.found /\ NoFence(raw) /\ IndexOf(raw, Openers) # 0) =>
    /\ xres.str # <<>>
    /\ xres.str[1] \in Openers
    /\ xres.str[Len(xres.str)] = CloserOf(xres.str[1])
    /\ xres.str = MatchingSpan(raw)

\* ------------------------------------------------------------------ C21
\* The three rules of extractJsonString (part_005:55-82), each as the
\* condition under which it yields a candidate.
FenceYields(text) ==
  \E i \in 1..Len(text) :
    /\ text[i] = "O"
    /\ \A h \in 1..(i-1) : text[h] # "O"
    /\ \E j \in (i+1)..Len(text) :
         /\ text[j] \in BacktickTok
         /\ \A h \in (i+1)..(j-1) : text[h] \notin BacktickTok
         /\ \E h \in (i+1)..(j-1) : text[h] \notin WsTok
SpanYields(text) ==
  \E i, j \in 1..Len(text) :
    /\ i < j
    /\ text[i] \in Openers
    /\ text[j] \in {"}", "]"}
WholeTextYields(text) ==
  \E i \in 1..Len(text) :
    /\ text[i] \in Openers
    /\ \A h \in 1..(i-1) : text[h] \in WsTok

CustomTextSettled == TextSettled /\ impl = "part_005" /\ sentTo = "custom"

\* C21: in the custom branch of part_005, when neither the fence rule nor
\* the opener/closer rule yields a candidate and the trimmed text starts
\* with '{' or '[', the candidate is the whole trimmed text and the call
\* fails with the malformed-JSON error, not the extraction error; there is
\* no candidate, and the extraction error, only when none of the three
\* rules applies.
C21_WholeTextIsLastResort ==
  CustomTextSettled =>
    /\ (~FenceYields(raw) /\ ~SpanYields(raw) /\ WholeTextYields(raw)) =>
         /\ PathCandidate = Candidate(Trim(raw))
         /\ outcome.res = "err"
         /\ outcome.err \in MalformedErrs
    /\ (~PathCandidate.found \/ outcome.err \in ExtractionErrs) =>
         (~FenceYields(raw) /\ ~SpanYields(raw) /\ ~WholeTextYields(raw))

C21_Witness ==
  /\ CustomTextSettled
  /\ ~FenceYields(raw) /\ ~SpanYields(raw) /\ WholeTextYields(raw)
  /\ Len(raw) > Len(Trim(raw))
  /\ outcome.err = "MalformedJson"

\* ------------------------------------------------------------------ C22
\* Where in the text the candidate that parseJsonResponse parses begins
\* (aiService.ts:100-113): inside the last fence when that fence is closed,
\* in the whole text otherwise; at the first '{' when there is a later '}'.
CandidateStart(text) ==
  LET startIndex == LastIndexOf(text, {"O"})
      endIndex == LastIndexOf(text, BacktickTok)
      base == IF startIndex # 0 /\ endIndex > startIndex THEN startIndex ELSE 0
      part == FencedPart(text)
      firstBrace == IndexOf(part, {"{"})
  IN IF firstBrace # 0 /\ LastIndexOf(part, {"}"}) > firstBrace
     THEN base + firstBrace ELSE base + 1

\* The ```json opener nearest before position i, 0 when there is none.
FenceBefore(text, i) == LastIndexOf(SubSeq(text, 1, i - 1), {"O"})

DataResolved == TextSettled /\ impl = "aiService" /\ task = "data" /\ outcome.res = "ok"

\* C22: when the suggestions were parsed from text that follows a ```json
\* opener, the report is exactly the text before that opener: report and
\* suggestions are split at the same fence, with several fences and with
\* an unclosed fence too.
C22_ReportSplitAtParsedFence ==
  (DataResolved /\ FenceBefore(RawResponse, CandidateStart(RawResponse)) # 0) =>
    outcome.report =
      SubSeq(RawResponse, 1, FenceBefore(RawResponse, CandidateStart(RawResponse)) - 1)

\* ------------------------------------------------------------------ C23
\* C23: the repair pass changes nothing that is already valid JSON: for
\* every candidate that parses as it stands, strings with a comma before a
\* '}' or ']' in them included, parseJsonResponse yields the value the
\* unrepaired candidate has.
C23_RepairKeepsValidJson ==
  (xfn = "parseJsonResponse" /\ IsJson(xres.str)) =>
    /\ xres.ok
    /\ xres.val = JsonParse(xres.str).val

\* C24: a panel has at most one analysis request in flight: while isLoading
\* is set no second handleDigest starts and the selected file and url do not
\* change, and a displayed result or error was computed from the input that
\* is selected now.
InputOf(h) == [file |-> h.file, url |-> h.url]
Selected == [file |-> file, url |-> url]
OneRequestForSelectedInput ==
  /\ Len(handlers) <= 1
  /\ isLoading <=> handlers # <<>>
  /\ \A k \in DOMAIN handlers : InputOf(handlers[k]) = Selected
  /\ resultInput # NoInput => resultInput = Selected
InputKeptWhileLoading ==
  isLoading => /\ file' = file
               /\ url' = url
               /\ Len(handlers') <= Len(handlers)
C24_OneRequestPerPanel ==
  [](OneRequestForSelectedInput) /\ [][InputKeptWhileLoading]_vars
C24_Witness ==
  /\ digests = 2
  /\ isLoading
  /\ Len(handlers) = 1
  /\ handlers[1].pc = "awaiting"

\* C25: every handleDigest that sets isLoading sets it back to false, on
\* every path: a result, a rejected analysis, an invalid url, a failed
\* fetch, a file that cannot be read or parsed, empty content.
C25_LoadingEnds == isLoading ~> ~isLoading
C25_Witness ==
  /\ digests > 0
  /\ ~isLoading
  /\ handlers = <<>>
  /\ panelError = "errors.fileEmpty"

\* C26: in GraphToDataPanel error and extractedData are never both
\* non-null, and extractedData is non-null only with isChart = true.
C26_DataOnlyForCharts ==
  task = "image" =>
    /\ ~(panelError # "" /\ extractedData # <<>>)
    /\ extractedData # <<>> => IsChartValue(extractedData) = "iT"

\* C27: in DataToGraphPanel selectedSuggestion is null or an element of the
\* current suggestions, and whenever suggestions is non-empty
\* selectedSuggestion is non-null.
Range(seq) == {seq[i] : i \in DOMAIN seq}
C27_SelectionWithinSuggestions ==
  task = "data" =>
    /\ selectedSuggestion = <<>>
         \/ selectedSuggestion \in Range(ArrayElements(panelSuggestions))
    /\ ArrayElements(panelSuggestions) # <<>> => selectedSuggestion # <<>>

\* C28: edits in the Model Manager touch only its local copy: a step that is
\* not Save leaves modelConfig and the persisted copy unchanged, Save
\* replaces modelConfig by exactly the dialog's local configuration, and an
\* edit of one task's configuration leaves the other task's unchanged.
DialogConfigs ==
  IF impl = "part_005" THEN localConfigs
  ELSE [t \in Tasks |->
          IF activeTab = "google" THEN GoogleOnly
          ELSE Config("custom", TRUE, customConfig.baseUrl, customConfig.apiKey,
                      customConfig.model)]
OnlySaveStores ==
  /\ saves' = saves => modelConfig' = modelConfig /\ storage' = storage
  /\ saves' # saves => mgrOpen /\ modelConfig' = DialogConfigs /\ storage' = DialogConfigs
  /\ mgrOpen /\ mgrOpen' /\ configuring' = configuring =>
       \A t \in Tasks \ {configuring} : localConfigs'[t] = localConfigs[t]
C29_SuccessIsForShownConfig ==
  (mgrOpen /\ testStatus = "success") => testedConfig = CurrentCustom

\* C30: whatever is stored under 'modelConfig' (nothing, text that does not
\* parse, JSON null, the legacy { provider, custom }, the new shape, anything
\* else), the initialisation of ModelProvider does not throw and yields a
\* config with both tasks: the legacy shape is copied unchanged to both tasks
\* and written back in the new shape, the new shape is returned as saved,
\* anything else gives the default.
LegacyShape(i) == i.kind = "object" /\ i.provider # "" /\ ~SlotTruthy(i.dataToGraph)
NewShape(i) == i.kind = "object" /\ SlotTruthy(i.dataToGraph) /\ SlotTruthy(i.graphToData)
====
